---------------------------- MODULE Spec2Model ----------------------------
(***************************************************************************)
(* A model of the stateless OAuth 2.0 / OpenID Connect engine of           *)
(* pubhubs/src/oidc.rs: the authorization endpoint (handle_auth), the      *)
(* grant step (grant_code), the token endpoint (handle_token) and          *)
(* generate_client_credentials, together with the codecs they rest on.     *)
(*                                                                         *)
(* Strings and byte strings are sequences of symbols.  A symbol is either  *)
(* one character / byte (k = "ch", n its code) or the output of a          *)
(* cryptographic primitive, kept as a term: a digest, a MAC, a random      *)
(* nonce, an AEAD ciphertext, or the base64 text of bytes that contain     *)
(* such a term.  Two terms are equal only if they were computed from the   *)
(* same inputs, which is the usual assumption that digests do not collide  *)
(* and that MACs and ciphertexts cannot be forged.                         *)
(***************************************************************************)
EXTENDS Integers, Sequences, FiniteSets, TLC

VARIABLES
    oidc,       \* the engine: OidcImpl { handler, four derived secrets }
    build,      \* which slice::binary_search_by the standard library has
    seal_fails, \* whether seal reports an error (messages this short never do)
    clients,    \* ClientCredentials the outside world has been given
    handle,     \* auth_request_handle the Handler holds (an Option)
    code,       \* auth_code the client holds (an Option)
    call,       \* the call being answered: operation, arguments, outcome
    threads     \* calls of concurrent callers, each running or done

vars == <<oidc, build, seal_fails, clients, handle, code, call, threads>>

-----------------------------------------------------------------------------
(* Bounds of the model.                                                    *)

\* irregularities at one time: registrations other than the regular ones,
\* and parameters of the request in flight changed from the regular request
MaxDeviations == 2
\* ClientCredentials the outside world keeps
MaxClients == 2
\* distinct values the random source yields for an envelope's nonce
NumNonces == 2
\* callers that use the engine at the same time
NumThreads == 2
\* length of the scope texts tried on parse_scope
MaxScopeLen == 5

\* the longest text given to html::escape
MaxHtmlLen == 3

\* the longest text parsed as a ClientId
MaxClientIdLen == 3

\* the longest userid and password of Credentials
MaxCredentialLen == 2

-----------------------------------------------------------------------------
(* Option and Result values.                                               *)

None == [some |-> FALSE, v |-> <<>>]
Some(x) == [some |-> TRUE, v |-> x]

Ok(x) == [ok |-> TRUE, v |-> x]
Err(e) == [ok |-> FALSE, v |-> e]

-----------------------------------------------------------------------------
(* Characters, strings, bytes.                                             *)

Sym(kind, n, key, aad, msg) ==
    [k |-> kind, n |-> n, key |-> key, aad |-> aad, msg |-> msg]

\* one character (or one byte) with code n
Ch(n) == Sym("ch", n, <<>>, <<>>, <<>>)

Code ==
    "NUL" :> 0 @@ " " :> 32 @@ "!" :> 33 @@ "#" :> 35 @@ "&" :> 38 @@ "-" :> 45 @@
    "/" :> 47 @@ ":" :> 58 @@ "=" :> 61 @@ "?" :> 63 @@ "_" :> 95 @@ "~" :> 126 @@
    "B" :> 66 @@
    "a" :> 97 @@ "b" :> 98 @@ "c" :> 99 @@ "d" :> 100 @@ "e" :> 101 @@
    "f" :> 102 @@ "g" :> 103 @@ "h" :> 104 @@ "i" :> 105 @@ "j" :> 106 @@
    "k" :> 107 @@ "l" :> 108 @@ "m" :> 109 @@ "n" :> 110 @@ "o" :> 111 @@
    "p" :> 112 @@ "q" :> 113 @@ "r" :> 114 @@ "s" :> 115 @@ "t" :> 116 @@
    "u" :> 117 @@ "v" :> 118 @@ "w" :> 119 @@ "x" :> 120 @@ "y" :> 121 @@
    "z" :> 122

\* the string whose characters are listed in t
Str(t) == [i \in 1..Len(t) |-> Ch(Code[t[i]])]

IsPlain(s) == \A i \in 1..Len(s) : s[i].k = "ch"

\* number of bytes a symbol stands for
RECURSIVE ByteLen(_)
SymLen(x) ==
    CASE x.k = "ch" -> 1
      [] x.k = "sha256" -> 32
      [] x.k = "hmac" -> 32
      [] x.k = "nonce" -> 24
      [] x.k = "aead" -> ByteLen(x.msg) + 16
      [] OTHER -> x.n

ByteLen(s) == IF s = <<>> THEN 0 ELSE SymLen(Head(s)) + ByteLen(Tail(s))

Drop(s, i) == SubSeq(s, i + 1, Len(s))
Take(s, i) == SubSeq(s, 1, i)

StartsWith(s, p) == Len(s) >= Len(p) /\ Take(s, Len(p)) = p

\* str::find / str::rfind of one character: its position, 0 when absent
Find(s, c) ==
    IF \E i \in 1..Len(s) : s[i] = c
    THEN CHOOSE i \in 1..Len(s) : s[i] = c /\ \A j \in 1..(i - 1) : s[j] # c
    ELSE 0

RFind(s, c) ==
    IF \E i \in 1..Len(s) : s[i] = c
    THEN CHOOSE i \in 1..Len(s) : s[i] = c /\ \A j \in (i + 1)..Len(s) : s[j] # c
    ELSE 0

\* str::split at one character: the pieces, in order
RECURSIVE Split(_, _)
Split(s, c) ==
    LET p == Find(s, c)
    IN  IF p = 0 THEN <<s>> ELSE <<Take(s, p - 1)>> \o Split(Drop(s, p), c)

\* Ord for str (byte-wise, a prefix is less): "Less", "Equal" or "Greater"
RECURSIVE StrCmp(_, _)
StrCmp(a, b) ==
    IF a = <<>> /\ b = <<>> THEN "Equal"
    ELSE IF a = <<>> THEN "Less"
    ELSE IF b = <<>> THEN "Greater"
    ELSE IF Head(a).n < Head(b).n THEN "Less"
    ELSE IF Head(a).n > Head(b).n THEN "Greater"
    ELSE StrCmp(Tail(a), Tail(b))

-----------------------------------------------------------------------------
(* base64ct: Base64 (standard alphabet) and Base64Url, both padded.  Bytes *)
(* that are all known are encoded digit by digit; bytes that contain a     *)
(* term are encoded to one symbol that stands for their text.              *)

B64Digit(v, url) ==
    IF v < 26 THEN 65 + v
    ELSE IF v < 52 THEN 97 + (v - 26)
    ELSE IF v < 62 THEN 48 + (v - 52)
    ELSE IF v = 62 THEN (IF url THEN 45 ELSE 43)
    ELSE (IF url THEN 95 ELSE 47)

B64Value(c, url) ==
    IF c >= 65 /\ c <= 90 THEN c - 65
    ELSE IF c >= 97 /\ c <= 122 THEN c - 97 + 26
    ELSE IF c >= 48 /\ c <= 57 THEN c - 48 + 52
    ELSE IF c = (IF url THEN 45 ELSE 43) THEN 62
    ELSE IF c = (IF url THEN 95 ELSE 47) THEN 63
    ELSE 0 - 1

B64TextLen(nbytes) == 4 * ((nbytes + 2) \div 3)

RECURSIVE B64EncodePlain(_, _)
B64EncodePlain(b, url) ==
    IF Len(b) = 0 THEN <<>>
    ELSE IF Len(b) = 1 THEN
        <<Ch(B64Digit(b[1].n \div 4, url)), Ch(B64Digit((b[1].n % 4) * 16, url)),
          Ch(61), Ch(61)>>
    ELSE IF Len(b) = 2 THEN
        <<Ch(B64Digit(b[1].n \div 4, url)),
          Ch(B64Digit((b[1].n % 4) * 16 + b[2].n \div 16, url)),
          Ch(B64Digit((b[2].n % 16) * 4, url)), Ch(61)>>
    ELSE
        <<Ch(B64Digit(b[1].n \div 4, url)),
          Ch(B64Digit((b[1].n % 4) * 16 + b[2].n \div 16, url)),
          Ch(B64Digit((b[2].n % 16) * 4 + b[3].n \div 64, url)),
          Ch(B64Digit(b[3].n % 64, url))>> \o B64EncodePlain(Drop(b, 3), url)

B64Kind(url) == IF url THEN "b64url" ELSE "b64"

\* Encoding::encode_string
B64Encode(b, url) ==
    IF IsPlain(b) THEN B64EncodePlain(b, url)
    ELSE <<Sym(B64Kind(url), B64TextLen(ByteLen(b)), <<>>, <<>>, b)>>

\* the bytes of a sequence of digit values, four digits to three bytes
RECURSIVE B64Bytes(_)
B64Bytes(v) ==
    IF Len(v) < 4 THEN <<>>
    ELSE <<Ch(v[1] * 4 + v[2] \div 16), Ch((v[2] % 16) * 16 + v[3] \div 4),
           Ch((v[3] % 4) * 64 + v[4])>> \o B64Bytes(Drop(v, 4))

B64DecodePlain(t, url) ==
    LET n == Len(t)
        pad == IF n >= 2 /\ t[n].n = 61 /\ t[n - 1].n = 61 THEN 2
               ELSE IF n >= 1 /\ t[n].n = 61 THEN 1 ELSE 0
        v == [i \in 1..(n - pad) |-> B64Value(t[i].n, url)]
        m == n - pad
        full == 4 * (m \div 4)
    IN  IF n % 4 # 0 \/ \E i \in 1..m : v[i] < 0 THEN Err("InvalidEncoding")
        ELSE IF pad = 0 THEN Ok(B64Bytes(v))
        ELSE IF pad = 1 THEN
            IF v[m] % 4 # 0 THEN Err("InvalidEncoding")
            ELSE Ok(B64Bytes(Take(v, full)) \o
                    <<Ch(v[m - 2] * 4 + v[m - 1] \div 16),
                      Ch((v[m - 1] % 16) * 16 + v[m] \div 4)>>)
        ELSE
            IF v[m] % 16 # 0 THEN Err("InvalidEncoding")
            ELSE Ok(B64Bytes(Take(v, full)) \o <<Ch(v[m - 1] * 4 + v[m] \div 16)>>)

\* Encoding::decode_vec.  The text of bytes that contain a term decodes to
\* those bytes; cut short, it is no valid text unless whole groups of four
\* digits remain, and then it decodes to a strict prefix of the bytes.
B64Decode(t, url) ==
    IF IsPlain(t) THEN B64DecodePlain(t, url)
    ELSE IF Len(t) = 1 /\ t[1].k = B64Kind(url) THEN
        IF t[1].n = B64TextLen(ByteLen(t[1].msg)) THEN Ok(t[1].msg)
        ELSE IF t[1].n % 4 = 0
             THEN Ok(<<Sym("cut", 3 * (t[1].n \div 4), <<>>, <<>>, t[1].msg)>>)
             ELSE Err("InvalidEncoding")
    ELSE Err("InvalidEncoding")

-----------------------------------------------------------------------------
(* Digests, MACs and derived secrets.                                      *)

\* sha2::Sha256 over the chained updates
Sha256(input) == <<Sym("sha256", 0, <<>>, <<>>, input)>>

\* hmac::Hmac<Sha256>: the finalized tag
HmacSha256(secret, input) == <<Sym("hmac", 0, secret, <<>>, input)>>

verify_truncated_left(tag, slice) ==
    slice = tag \/ (Len(slice) = 1 /\ slice[1].k = "cut" /\ slice[1].msg = tag)

\* Mac::verify_slice: constant time equality with the whole tag
verify_slice(tag, slice) == slice = tag

derive_secret(concerns, secret) == Sha256(concerns \o <<Ch(0)>> \o secret)

-----------------------------------------------------------------------------
(* rmp_serde: a struct of strings is written as a MessagePack array of     *)
(* strings: the array header, then for each string its length header and   *)
(* its bytes.                                                              *)

MpStr(str) ==
    LET n == ByteLen(str)
    IN  (IF n < 32 THEN <<Ch(160 + n)>> ELSE <<Ch(217), Ch(n)>>) \o str

RECURSIVE MpStrs(_)
MpStrs(fields) ==
    IF fields = <<>> THEN <<>> ELSE MpStr(Head(fields)) \o MpStrs(Tail(fields))

\* rmp_serde::to_vec
to_vec(fields) == <<Ch(144 + Len(fields))>> \o MpStrs(fields)

\* the number of leading symbols of b that make up exactly n bytes; -1 if none
RECURSIVE SymsFor(_, _)
SymsFor(b, n) ==
    IF n = 0 THEN 0
    ELSE IF b = <<>> \/ SymLen(Head(b)) > n THEN 0 - 1
    ELSE LET r == SymsFor(Tail(b), n - SymLen(Head(b)))
         IN  IF r < 0 THEN r ELSE r + 1

\* reads `count` strings from b; Err unless b holds exactly these
RECURSIVE MpRead(_, _)
MpRead(b, count) ==
    IF count = 0 THEN (IF b = <<>> THEN Ok(<<>>) ELSE Err("trailing"))
    ELSE IF b = <<>> \/ Head(b).k # "ch" THEN Err("eof")
    ELSE
        LET h == Head(b).n
            short == h >= 160 /\ h < 192
            long == h = 217 /\ Len(b) >= 2 /\ b[2].k = "ch"
            n == IF short THEN h - 160 ELSE b[2].n
            body == IF short THEN Tail(b) ELSE Drop(b, 2)
            m == SymsFor(body, n)
        IN  IF ~(short \/ long) THEN Err("type")
            ELSE IF m < 0 THEN Err("eof")
            ELSE LET rest == MpRead(Drop(body, m), count - 1)
                 IN  IF rest.ok THEN Ok(<<Take(body, m)>> \o rest.v) ELSE rest

\* rmp_serde::from_slice for a struct of `count` strings
from_slice(b, count) ==
    IF b = <<>> \/ b[1] # Ch(144 + count) THEN Err("type")
    ELSE MpRead(Tail(b), count)

-----------------------------------------------------------------------------
(* The envelope: XChaCha20-Poly1305 with a random 24-byte nonce.           *)

NONCE_LEN == 24

\* AeadCore::generate_nonce: the r-th value of the random source
generate_nonce(r) == <<Sym("nonce", r, <<>>, <<>>, <<>>)>>

\* Aead::encrypt: ciphertext and tag, as a term over everything they bind
encrypt(key, nonce, msg, aad) == <<Sym("aead", nonce[1].n, key, aad, msg)>>

decrypt_without_aad(key, nonce, msg, aad) ==
    IF /\ Len(msg) = 1 /\ msg[1].k = "aead"
       /\ Len(nonce) = 1 /\ nonce[1].k = "nonce"
       /\ msg[1].n = nonce[1].n
       /\ msg[1].key = key
    THEN Ok(msg[1].msg)
    ELSE Err("aead::Error")

\* Aead::decrypt: the plaintext, if the tag authenticates nonce, msg and aad
\* under key; bytes that were not produced by encrypt never do
decrypt(key, nonce, msg, aad) ==
    IF /\ Len(msg) = 1 /\ msg[1].k = "aead"
       /\ Len(nonce) = 1 /\ nonce[1].k = "nonce"
       /\ msg[1].n = nonce[1].n
       /\ msg[1].key = key
       /\ msg[1].aad = aad
    THEN Ok(msg[1].msg)
    ELSE Err("aead::Error")

\* seal: `fields` are the strings of the struct, r the random source's
\* value, `fails` whether a step of sealing reports an error
seal(fields, key, aad, r, fails) ==
    IF fails THEN Err("encrypting")
    ELSE LET plaintext == to_vec(fields)
             nonce == generate_nonce(r)
             ciphertext == encrypt(key, nonce, plaintext, aad)
         IN  Ok(B64Encode(nonce \o ciphertext, TRUE))

\* unseal, from the decoded buffer on: the length check, the decryption
\* under the leading NONCE_LEN bytes, and the deserialisation
unseal_buf(buf, key, aad, count) ==
    IF ~buf.ok THEN Err("Failure")
    ELSE IF ByteLen(buf.v) < NONCE_LEN THEN Err("Failure")
    ELSE
        LET m == SymsFor(buf.v, NONCE_LEN)
            plaintext == IF m < 0 THEN Err("aead::Error")
                         ELSE decrypt(key, Take(buf.v, m), Drop(buf.v, m), aad)
        IN  IF ~plaintext.ok THEN Err("Failure")
            ELSE LET obj == from_slice(plaintext.v, count)
                 IN  IF obj.ok THEN obj ELSE Err("Failure")

\* an unseal that opens whatever seal produced: no key, no associated data,
\* no shape of the payload is looked at
unseal_unauthenticated(envelope, key, aad, count) ==
    LET buf == B64Decode(envelope, TRUE)
    IN  IF ~buf.ok \/ Len(buf.v) # 2 THEN Err("Failure")
        ELSE IF buf.v[2].k # "aead" THEN Err("Failure")
        ELSE LET five == from_slice(buf.v[2].msg, 5)
                 one == from_slice(buf.v[2].msg, 1)
                 fields == IF five.ok THEN five.v ELSE IF one.ok THEN one.v ELSE <<>>
             IN  Ok([i \in 1..count |-> IF i <= Len(fields) THEN fields[i] ELSE <<>>])

\* unseal: the strings of the struct, or the one Failure
unseal(envelope, key, aad, count) ==
    unseal_buf(B64Decode(envelope, TRUE), key, aad, count)

-----------------------------------------------------------------------------
(* ClientId: <bare_id>~<mac>.  tilde_pos counts the symbols before the     *)
(* last tilde.                                                             *)

TILDE == 126

\* matches!(c, '\x20'..='\x7e'); base64 text is made of such characters
is_printable_ascii(characters) ==
    \A i \in 1..Len(characters) :
        IF characters[i].k = "ch"
        THEN characters[i].n >= 32 /\ characters[i].n <= 126
        ELSE characters[i].k \in {"b64", "b64url"}

\* a parse that divides at the first tilde
ClientId_try_from_first_tilde(str) ==
    LET pos == Find(str, Ch(TILDE))
    IN  IF pos = 0 THEN Err("MalformedClientId")
        ELSE IF ~is_printable_ascii(str) THEN Err("MalformedClientId")
        ELSE Ok([data |-> str, tilde_pos |-> pos - 1])

\* TryFrom<String> for ClientId (and FromStr)
ClientId_try_from(str) ==
    LET pos == RFind(str, Ch(TILDE))
    IN  IF pos = 0 THEN Err("MalformedClientId")
        ELSE IF ~is_printable_ascii(str) THEN Err("MalformedClientId")
        ELSE Ok([data |-> str, tilde_pos |-> pos - 1])

bare_id(c) == Take(c.data, c.tilde_pos)

mac(c) == Drop(c.data, c.tilde_pos + 1)

\* a compute_mac that feeds no separator between bare_id and redirect_uri
compute_mac_without_separator(bare, secret, redirect_uri) ==
    HmacSha256(secret, bare \o redirect_uri)

\* ClientId::compute_mac, finalized
compute_mac(bare, secret, redirect_uri) ==
    HmacSha256(secret, bare \o <<Ch(0)>> \o redirect_uri)

check_mac_any_base64(c, secret, redirect_uri) == B64Decode(mac(c), TRUE).ok

\* ClientId::check_mac
check_mac(c, secret, redirect_uri) ==
    LET m == B64Decode(mac(c), TRUE)
    IN  IF ~m.ok THEN FALSE
        ELSE verify_slice(compute_mac(bare_id(c), secret, redirect_uri), m.v)

\* ClientId::new
ClientId_new(bare, secret, redirect_uri) ==
    [data |-> bare \o <<Ch(TILDE)>> \o B64Encode(compute_mac(bare, secret, redirect_uri), TRUE),
     tilde_pos |-> Len(bare)]

password_mac_of_secret(client_id, secret) == HmacSha256(secret, <<>>)

password_mac(client_id, secret) == HmacSha256(secret, client_id)

\* ClientId::password
password(client_id, secret) == B64Encode(password_mac(client_id, secret), TRUE)

\* ClientId::check_password
check_password(client_id, secret, pw) ==
    LET p == B64Decode(pw, TRUE)
    IN  IF ~p.ok THEN FALSE
        ELSE verify_slice(password_mac(client_id, secret), p.v)

-----------------------------------------------------------------------------
(* Validators.                                                             *)

\* is_valid_state, of an Option<String>
is_valid_state(o) ==
    IF ~o.some THEN FALSE
    ELSE IF ~is_printable_ascii(o.v) THEN FALSE
    ELSE IF o.v = <<>> THEN FALSE
    ELSE TRUE

\* '\x21' | '\x23'..='\x5b' | '\x5d'..='\x7e'
IsScopeChar(x) ==
    IF x.k = "ch"
    THEN x.n = 33 \/ (x.n >= 35 /\ x.n <= 91) \/ (x.n >= 93 /\ x.n <= 126)
    ELSE x.k \in {"b64", "b64url"}

\* Vec::sort of strings
RECURSIVE Insert(_, _)
Insert(sorted, x) ==
    IF sorted = <<>> THEN <<x>>
    ELSE IF StrCmp(x, Head(sorted)) = "Less" THEN <<x>> \o sorted
    ELSE <<Head(sorted)>> \o Insert(Tail(sorted), x)

RECURSIVE Sort(_)
Sort(v) == IF v = <<>> THEN <<>> ELSE Insert(Sort(Tail(v)), Head(v))

parse_scope_unsorted(scope) ==
    LET tokens == Split(scope, Ch(32))
    IN  IF \E i \in 1..Len(tokens) : tokens[i] = <<>> THEN Err("InvalidScope")
        ELSE IF \E i \in 1..Len(tokens) : \E j \in 1..Len(tokens[i]) :
                    ~IsScopeChar(tokens[i][j])
             THEN Err("InvalidScope")
        ELSE Ok(tokens)

\* the tokens in the opposite order of the text, unsorted
parse_scope_reversed(scope) ==
    LET r == parse_scope_unsorted(scope)
    IN  IF r.ok THEN Ok([i \in 1..Len(r.v) |-> r.v[Len(r.v) + 1 - i]]) ELSE r

\* parse_scope: the tokens in sorted order, or Error::InvalidScope
parse_scope(scope) ==
    LET tokens == Split(scope, Ch(32))
    IN  IF \E i \in 1..Len(tokens) : tokens[i] = <<>> THEN Err("InvalidScope")
        ELSE IF \E i \in 1..Len(tokens) : \E j \in 1..Len(tokens[i]) :
                    ~IsScopeChar(tokens[i][j])
             THEN Err("InvalidScope")
        ELSE Ok(Sort(tokens))

-----------------------------------------------------------------------------
(* html::escape                                                            *)

\* a search that leaves the double quote alone
IsEscaped_without_quote(x) == x.k = "ch" /\ x.n \in {60, 62, 38, 39}

\* the characters searched for: '<', '>', '&', '\'' and '"'
IsEscaped(x) == x.k = "ch" /\ x.n \in {60, 62, 38, 39, 34}

\* the text pushed for a match
escape_match(m) ==
    CASE m.n = 60 -> <<Ch(38), Ch(108), Ch(116), Ch(59)>>                 \* &lt;
      [] m.n = 62 -> <<Ch(38), Ch(103), Ch(116), Ch(59)>>                 \* &gt;
      [] m.n = 38 -> <<Ch(38), Ch(97), Ch(109), Ch(112), Ch(59)>>         \* &amp;
      [] m.n = 34 -> <<Ch(38), Ch(113), Ch(117), Ch(111), Ch(116), Ch(59)>> \* &quot;
      [] m.n = 39 -> <<Ch(38), Ch(35), Ch(50), Ch(55), Ch(59)>>           \* &#27;

\* the fold over match_indices, from previous_idx on, and the push of the
\* rest after the last match
RECURSIVE escape_fold(_, _)
escape_fold(s, previous_idx) ==
    LET found == {i \in (previous_idx + 1)..Len(s) : IsEscaped(s[i])}
    IN  IF found = {} THEN Drop(s, previous_idx)
        ELSE LET idx == CHOOSE i \in found : \A j \in found : i <= j
             IN  SubSeq(s, previous_idx + 1, idx - 1) \o escape_match(s[idx])
                     \o escape_fold(s, idx)

\* html::escape
escape(s) ==
    IF \A i \in 1..Len(s) : ~IsEscaped(s[i]) THEN s
    ELSE escape_fold(s, 0)

-----------------------------------------------------------------------------
(* slice::binary_search_by.  cmp[i] is what the closure returns for the    *)
(* i-th element.  The standard library has had two algorithms; they agree  *)
(* when the closure is consistent with the order of the slice, and the     *)
(* documentation leaves the result unspecified when it is not.             *)

\* Rust 1.52 to 1.81: halve [left, right), return at the first Equal
RECURSIVE BinarySearchReturning(_, _, _)
BinarySearchReturning(cmp, left, right) ==
    IF left >= right THEN Err(left)
    ELSE LET mid == left + (right - left) \div 2
         IN  IF cmp[mid + 1] = "Less" THEN BinarySearchReturning(cmp, mid + 1, right)
             ELSE IF cmp[mid + 1] = "Greater" THEN BinarySearchReturning(cmp, left, mid)
             ELSE Ok(mid)

\* before Rust 1.52 and from 1.82: move base without branching, compare once
\* at the end
RECURSIVE BinarySearchBase(_, _, _)
BinarySearchBase(cmp, base, size) ==
    IF size <= 1 THEN base
    ELSE LET half == size \div 2
             mid == base + half
         IN  BinarySearchBase(cmp, IF cmp[mid + 1] = "Greater" THEN base ELSE mid,
                              size - half)

BinarySearchBranchless(cmp) ==
    IF Len(cmp) = 0 THEN Err(0)
    ELSE LET base == BinarySearchBase(cmp, 0, Len(cmp))
         IN  IF cmp[base + 1] = "Equal" THEN Ok(base)
             ELSE Err(base + (IF cmp[base + 1] = "Less" THEN 1 ELSE 0))

StdBuilds == {"returning", "branchless"}

binary_search_by(cmp, std) ==
    IF std = "returning" THEN BinarySearchReturning(cmp, 0, Len(cmp))
    ELSE BinarySearchBranchless(cmp)

-----------------------------------------------------------------------------
(* url::Url::parse, as far as handle_auth looks at its result: the scheme, *)
(* the fragment and the query.  A string without a scheme is a relative    *)
(* reference and does not parse; an http(s) URL needs a host.              *)

IsAlpha(x) == x.k = "ch" /\ ((x.n >= 65 /\ x.n <= 90) \/ (x.n >= 97 /\ x.n <= 122))

IsSchemeChar(x) ==
    IsAlpha(x) \/ (x.k = "ch" /\ ((x.n >= 48 /\ x.n <= 57) \/ x.n \in {43, 45, 46}))

RECURSIVE StripSlashes(_)
StripSlashes(str) ==
    IF str # <<>> /\ Head(str) = Ch(47) THEN StripSlashes(Tail(str)) ELSE str

Url_parse(str) ==
    LET colon == Find(str, Ch(58))
        scheme == Take(str, colon - 1)
        rest == Drop(str, colon)
        hash == Find(rest, Ch(35))
        nofrag == IF hash = 0 THEN rest ELSE Take(rest, hash - 1)
        qmark == Find(nofrag, Ch(63))
        hier == IF qmark = 0 THEN nofrag ELSE Take(nofrag, qmark - 1)
        host == StripSlashes(hier)
        special == scheme \in {Str(<<"h", "t", "t", "p">>), Str(<<"h", "t", "t", "p", "s">>)}
    IN  IF colon = 0 \/ scheme = <<>> \/ ~IsAlpha(scheme[1])
           \/ \E i \in 1..Len(scheme) : ~IsSchemeChar(scheme[i])
        THEN Err("RelativeUrlWithoutBase")
        ELSE IF special /\ (host = <<>> \/ Head(host) = Ch(47)) THEN Err("EmptyHost")
        ELSE Ok([scheme |-> scheme,
                 fragment |-> IF hash = 0 THEN None ELSE Some(Drop(rest, hash)),
                 query |-> IF qmark = 0 THEN None ELSE Some(Drop(nofrag, qmark))])

\* form_urlencoded::parse of a query without escapes: the name/value pairs
UrlencodedPairs(str) ==
    LET pieces == SelectSeq(Split(str, Ch(38)), LAMBDA p : p # <<>>)
    IN  [i \in 1..Len(pieces) |->
            LET eq == Find(pieces[i], Ch(61))
            IN  IF eq = 0 THEN <<pieces[i], <<>>>>
                ELSE <<Take(pieces[i], eq - 1), Drop(pieces[i], eq)>>]

\* the special fields without nonce
SpecialFieldNames_without_nonce ==
    {Str(<<"c", "o", "d", "e">>), Str(<<"s", "t", "a", "t", "e">>),
     Str(<<"e", "r", "r", "o", "r">>),
     Str(<<"e", "r", "r", "o", "r", "_", "d", "e", "s", "c", "r", "i", "p", "t", "i", "o", "n">>),
     Str(<<"e", "r", "r", "o", "r", "_", "u", "r", "i">>)}

\* the field names of RedirectUriSpecialFields
SpecialFieldNames ==
    {Str(<<"c", "o", "d", "e">>), Str(<<"s", "t", "a", "t", "e">>),
     Str(<<"n", "o", "n", "c", "e">>), Str(<<"e", "r", "r", "o", "r">>),
     Str(<<"e", "r", "r", "o", "r", "_", "d", "e", "s", "c", "r", "i", "p", "t", "i", "o", "n">>),
     Str(<<"e", "r", "r", "o", "r", "_", "u", "r", "i">>)}

\* serde_urlencoded::from_str::<RedirectUriSpecialFields>: the special fields
\* that are set; a field given twice is an error, other fields are ignored
RedirectUriSpecialFields_from_str(ruq) ==
    LET pairs == UrlencodedPairs(ruq)
    IN  IF \E i, j \in 1..Len(pairs) :
              i # j /\ pairs[i][1] = pairs[j][1] /\ pairs[i][1] \in SpecialFieldNames
        THEN Err("duplicate field")
        ELSE Ok({pairs[i][1] : i \in {j \in 1..Len(pairs) : pairs[j][1] \in SpecialFieldNames}})

\* RedirectUriSpecialFields::empty
empty(fields) == fields = {}

-----------------------------------------------------------------------------
(* The query of an authorization request and the body of a token request,  *)
(* as the list of name/value pairs that serde_urlencoded reads from them.  *)

AuthQueryRequired == {"response_type", "client_id", "redirect_uri"}

AuthQueryOptional ==
    {"response_mode", "scope", "state", "nonce", "display", "prompt", "max_age",
     "ui_locales", "id_token_hint", "login_hint", "acr_values"}

TokenQueryRequired == {"grant_type", "code", "client_id", "redirect_uri"}

\* a struct with #[serde(deny_unknown_fields)]: an unknown field, a field
\* given twice or a required field left out is an error
Deserialize(pairs, required, optional) ==
    LET names == {pairs[i][1] : i \in 1..Len(pairs)}
        value(f) == pairs[CHOOSE i \in 1..Len(pairs) : pairs[i][1] = f][2]
    IN  IF \E f \in names : f \notin required \cup optional THEN Err("unknown field")
        ELSE IF \E i, j \in 1..Len(pairs) : i # j /\ pairs[i][1] = pairs[j][1]
             THEN Err("duplicate field")
        ELSE IF \E f \in required : f \notin names THEN Err("missing field")
        ELSE Ok([f \in required \cup optional |->
                    IF f \in names THEN Some(value(f)) ELSE None])

\* serde_urlencoded::from_str::<AuthQuery>
AuthQuery_from_str(pairs) == Deserialize(pairs, AuthQueryRequired, AuthQueryOptional)

\* serde_urlencoded::from_reader::<TokenQuery>
TokenQuery_from_reader(pairs) == Deserialize(pairs, TokenQueryRequired, {})

-----------------------------------------------------------------------------
(* basic_auth: the Authorization header of a client.                       *)

\* char::is_whitespace, for ASCII
is_whitespace(x) == x.k = "ch" /\ x.n \in {9, 10, 11, 12, 13, 32}

RECURSIVE trim_start(_)
trim_start(str) ==
    IF str # <<>> /\ is_whitespace(Head(str)) THEN trim_start(Tail(str)) ELSE str

RECURSIVE trim_end(_)
trim_end(str) ==
    IF str # <<>> /\ is_whitespace(str[Len(str)])
    THEN trim_end(Take(str, Len(str) - 1)) ELSE str

trim(str) == trim_end(trim_start(str))

\* std::str::from_utf8 accepts: one-byte and two-byte sequences are checked;
\* bytes of a digest, MAC or ciphertext are not text
RECURSIVE IsUtf8(_)
IsUtf8(b) ==
    IF b = <<>> THEN TRUE
    ELSE IF Head(b).k \in {"b64", "b64url"} THEN IsUtf8(Tail(b))
    ELSE IF Head(b).k # "ch" THEN FALSE
    ELSE IF Head(b).n < 128 THEN IsUtf8(Tail(b))
    ELSE /\ Head(b).n >= 194 /\ Head(b).n <= 223
         /\ Len(b) >= 2 /\ b[2].k = "ch" /\ b[2].n >= 128 /\ b[2].n <= 191
         /\ IsUtf8(Drop(b, 2))

BASIC == Str(<<"B", "a", "s", "i", "c">>)

\* a parse that divides userid and password at the last colon
Credentials_from_str_last_colon(header) ==
    LET s1 == trim_start(header)
        s2 == Drop(s1, Len(BASIC))
        bytes == B64Decode(trim(s2), FALSE)
        pos == IF bytes.ok THEN RFind(bytes.v, Ch(58)) ELSE 0
    IN  IF ~StartsWith(s1, BASIC) THEN Err("MissingBasic")
        ELSE IF s2 = <<>> \/ ~is_whitespace(Head(s2)) THEN Err("MissingWhitespace")
        ELSE IF ~bytes.ok THEN Err("InvalidBase64")
        ELSE IF ~IsUtf8(bytes.v) THEN Err("InvalidUtf8")
        ELSE IF pos = 0 THEN Err("MissingColon")
        ELSE Ok([userid |-> Take(bytes.v, pos - 1), password |-> Drop(bytes.v, pos)])

\* FromStr for basic_auth::Credentials
Credentials_from_str(header) ==
    LET s1 == trim_start(header)
        s2 == Drop(s1, Len(BASIC))
        bytes == B64Decode(trim(s2), FALSE)
        pos == IF bytes.ok THEN Find(bytes.v, Ch(58)) ELSE 0
    IN  IF ~StartsWith(s1, BASIC) THEN Err("MissingBasic")
        ELSE IF s2 = <<>> \/ ~is_whitespace(Head(s2)) THEN Err("MissingWhitespace")
        ELSE IF ~bytes.ok THEN Err("InvalidBase64")
        ELSE IF ~IsUtf8(bytes.v) THEN Err("InvalidUtf8")
        ELSE IF pos = 0 THEN Err("MissingColon")
        ELSE Ok([userid |-> Take(bytes.v, pos - 1), password |-> Drop(bytes.v, pos)])

\* Display for basic_auth::Credentials
Credentials_to_string(creds) ==
    BASIC \o <<Ch(32)>> \o B64Encode(creds.userid \o <<Ch(58)>> \o creds.password, FALSE)

\* ClientCredentials::basic_auth
basic_auth(cc) ==
    Credentials_to_string([userid |-> cc.client_id.data, password |-> cc.password])

-----------------------------------------------------------------------------
(* The engine and its Handler.                                             *)

new_ignoring_secret(h, secret) ==
    [handler |-> h,
     client_hmac_secret |-> Sha256(Str(<<"c", "l", "i", "e", "n", "t", "-", "h", "m", "a", "c">>)),
     client_password_secret |->
        Sha256(Str(<<"c", "l", "i", "e", "n", "t", "-", "p", "a", "s", "s", "w", "o", "r", "d">>)),
     auth_code_secret |-> Sha256(Str(<<"a", "u", "t", "h", "-", "c", "o", "d", "e">>)),
     auth_request_handle_secret |->
        Sha256(Str(<<"a", "u", "t", "h", "-", "r", "e", "q", "u", "e", "s", "t", "-", "h", "a", "n", "d", "l", "e">>))]

\* new: the four secrets are derived from the secret passed in
new(h, secret) ==
    [handler |-> h,
     client_hmac_secret |->
        derive_secret(Str(<<"c", "l", "i", "e", "n", "t", "-", "h", "m", "a", "c">>), secret),
     client_password_secret |->
        derive_secret(Str(<<"c", "l", "i", "e", "n", "t", "-", "p", "a", "s", "s", "w", "o", "r", "d">>), secret),
     auth_code_secret |->
        derive_secret(Str(<<"a", "u", "t", "h", "-", "c", "o", "d", "e">>), secret),
     auth_request_handle_secret |->
        derive_secret(Str(<<"a", "u", "t", "h", "-", "r", "e", "q", "u", "e", "s", "t", "-", "h", "a", "n", "d", "l", "e">>), secret)]

INVALID_CLIENT ==
    Str(<<"i", "n", "v", "a", "l", "i", "d", "_", "c", "l", "i", "e", "n", "t">>)

\* Handler::is_valid_client: the default of the trait accepts every client,
\* the handler of the tests rejects bare ids that start with invalid_client
Handler_is_valid_client(h, client_id, redirect_uri) ==
    IF h = "MockHandler" THEN ~StartsWith(bare_id(client_id), INVALID_CLIENT) ELSE TRUE

\* Handler::handle_auth of the tests' handler: a page that holds the handle
Handler_handle_auth(h, req, auth_request_handle) ==
    [variant |-> "HandleAuthPage", handle |-> auth_request_handle]

\* the strings of AuthRequestData, in the order of the struct's fields
AuthRequestData(state, nonce, redirect_uri, scope, client_id) ==
    <<state, nonce, redirect_uri, scope, client_id>>

to_handle_with_aad(data, key, r, fails) == seal(data, key, data[5], r, fails)

\* AuthRequestData::to_handle
to_handle(data, key, r, fails) == seal(data, key, <<>>, r, fails)

\* a from_handle that hands on what unseal reports
from_handle_passing_failure(h, key) ==
    LET data == unseal(h, key, <<>>, 5)
    IN  IF data.ok
        THEN Ok([state |-> data.v[1], nonce |-> data.v[2], redirect_uri |-> data.v[3],
                 scope |-> data.v[4], client_id |-> data.v[5]])
        ELSE data

\* AuthRequestData::from_handle
from_handle(h, key) ==
    LET data == unseal(h, key, <<>>, 5)
    IN  IF data.ok
        THEN Ok([state |-> data.v[1], nonce |-> data.v[2], redirect_uri |-> data.v[3],
                 scope |-> data.v[4], client_id |-> data.v[5]])
        ELSE Err("InvalidAuthRequestHandle")

to_code_without_client(id_token, key, client_id, r, fails) ==
    seal(<<id_token>>, key, <<>>, r, fails)

\* a to_code that seals the client_id in the place of the id_token
to_code_sealing_client(id_token, key, client_id, r, fails) ==
    seal(<<client_id>>, key, client_id, r, fails)

\* AuthCodeData::to_code
to_code(id_token, key, client_id, r, fails) == seal(<<id_token>>, key, client_id, r, fails)

from_code_any_client(c, key, client_id) ==
    LET b == B64Decode(c, TRUE)
    IN  IF b.ok /\ Len(b.v) = 2 /\ b.v[2].k = "aead"
        THEN unseal(c, key, b.v[2].aad, 1)
        ELSE Err("InvalidAuthCode")

\* AuthCodeData::from_code: Ok(<<id_token>>) or Error::InvalidAuthCode
from_code(c, key, client_id) ==
    LET data == unseal(c, key, client_id, 1)
    IN  IF data.ok THEN data ELSE Err("InvalidAuthCode")

-----------------------------------------------------------------------------
(* Responses.                                                              *)

\* http::Response::Auth(AuthResponse::Error(e))
AuthError(e) == [variant |-> "Auth.Error", error |-> e]

\* redirect_uri::ResponseData::Error; param names the parameter of
\* Error::UnsupportedParameter and is empty otherwise
ErrorData(error, param, state) ==
    [variant |-> "Error", error |-> error, param |-> param, state |-> state]

\* redirect_uri::ResponseData::CodeGrant
CodeGrant(c, state) == [variant |-> "CodeGrant", code |-> c, state |-> state]

\* http::Response::Auth(AuthResponse::FormPost(redirect_uri::Response))
AuthFormPost(uri, data) == [variant |-> "Auth.FormPost", uri |-> uri, data |-> data]

\* http::Response::Grant(redirect_uri::Response)
Grant(uri, data) == [variant |-> "Grant", uri |-> uri, data |-> data]

\* http::Response::Token(TokenResponse::Error(e))
TokenError(e) == [variant |-> "Token.Error", error |-> e]

\* http::Response::Token(TokenResponse::IdToken(t))
IdToken(t) == [variant |-> "Token.IdToken", id_token |-> t]

\* the variants of http::S52Error
S52Errors ==
    {"UnsupportedMethod", "MalformedQuery", "MalformedRedirectUri",
     "UnsupportedResponseMode", "MalformedRequestBody", "InvalidAuthCode",
     "MalformedClientId", "InvalidClientMAC", "UnsupportedContentType",
     "MissingClientCredentials", "MalformedClientCredentials",
     "InvalidClientCredentials", "UnsupportedGrantType"}

\* an error_code that blames the client for its client_id
error_code_blaming_client(e) ==
    CASE e \in {"UnsupportedMethod", "MalformedQuery", "MalformedRedirectUri",
                "UnsupportedResponseMode", "MalformedRequestBody",
                "UnsupportedContentType"} -> "InvalidRequest"
      [] e = "InvalidAuthCode" -> "InvalidGrant"
      [] e \in {"MalformedClientId", "InvalidClientMAC", "MissingClientCredentials",
                "MalformedClientCredentials", "InvalidClientCredentials"} -> "InvalidClient"
      [] e = "UnsupportedGrantType" -> "UnsupportedGrantType"

\* an error_code with S52EC::UnauthorizedClient for the errors about the
\* credentials of the client
error_code_unauthorized(e) ==
    CASE e \in {"UnsupportedMethod", "MalformedQuery", "MalformedRedirectUri",
                "UnsupportedResponseMode", "MalformedRequestBody", "MalformedClientId",
                "InvalidClientMAC", "UnsupportedContentType"} -> "InvalidRequest"
      [] e = "InvalidAuthCode" -> "InvalidGrant"
      [] e = "MissingClientCredentials" -> "InvalidClient"
      [] e \in {"MalformedClientCredentials", "InvalidClientCredentials"} ->
            "UnauthorizedClient"
      [] e = "UnsupportedGrantType" -> "UnsupportedGrantType"

\* S52Error::error_code
error_code(e) ==
    CASE e \in {"UnsupportedMethod", "MalformedQuery", "MalformedRedirectUri",
                "UnsupportedResponseMode", "MalformedRequestBody", "MalformedClientId",
                "InvalidClientMAC", "UnsupportedContentType"} -> "InvalidRequest"
      [] e = "InvalidAuthCode" -> "InvalidGrant"
      [] e \in {"MissingClientCredentials", "MalformedClientCredentials",
                "InvalidClientCredentials"} -> "InvalidClient"
      [] e = "UnsupportedGrantType" -> "UnsupportedGrantType"

\* S52EC::to_static_str
to_static_str(c) ==
    CASE c = "InvalidRequest" -> "invalid_request"
      [] c = "InvalidClient" -> "invalid_client"
      [] c = "InvalidGrant" -> "invalid_grant"
      [] c = "UnauthorizedClient" -> "unauthorized_client"
      [] c = "UnsupportedGrantType" -> "unsupported_grant_type"
      [] c = "InvalidScope" -> "invalid_scope"

\* S52Error::error
S52Error_error(e) == to_static_str(error_code(e))

\* S52Error::status
S52Error_status(e) == IF S52Error_error(e) = "unauthorized_client" THEN 401 ELSE 400

\* a status that takes a bounced error for an error response
status_of_any_error(resp) ==
    IF resp.variant \in {"Auth.Error", "Token.Error"} THEN S52Error_status(resp.error)
    ELSE IF resp.variant \in {"Auth.FormPost", "Grant"} /\ resp.data.variant = "Error"
         THEN 400
    ELSE 200

\* Response::status
status(resp) ==
    IF resp.variant \in {"Auth.Error", "Token.Error"} THEN S52Error_status(resp.error)
    ELSE 200

\* Response::headers: the four HeaderValueCreators in the order of HEADERS,
\* and the headers whose creator returns Some
headers(resp) ==
    LET content_type ==
            IF resp.variant \in {"Auth.FormPost", "Grant"}
            THEN Some("text/html;charset=UTF-8")
            ELSE IF resp.variant = "Auth.Error" THEN Some("plain/text;charset=UTF-8")
            ELSE Some("application/json;charset=UTF-8")
        www_authenticate ==
            IF status(resp) = 401 THEN Some("Basic") ELSE [some |-> FALSE, v |-> ""]
        HEADERS ==
            <<[name |-> "Content-Type", value |-> content_type],
              [name |-> "Cache-Control", value |-> Some("no-store")],
              [name |-> "WWW-Authenticate", value |-> www_authenticate],
              [name |-> "Content-Security-Policy", value |-> Some("frame-ancestors none;")]>>
        kept == SelectSeq(HEADERS, LAMBDA h : h.value.some)
    IN  [i \in 1..Len(kept) |-> [name |-> kept[i].name, value |-> kept[i].value.v]]

\* what an endpoint did: its response and the calls it made to the Handler
Outcome(resp, calls) == [resp |-> resp, handler_calls |-> calls]

FORM_POST == Str(<<"f", "o", "r", "m", "_", "p", "o", "s", "t">>)
CODE == Str(<<"c", "o", "d", "e">>)
OIDC == Str(<<"o", "i", "d", "c">>)
AUTHORIZATION_CODE ==
    Str(<<"a", "u", "t", "h", "o", "r", "i", "z", "a", "t", "i", "o", "n", "_", "c", "o", "d", "e">>)

\* the parameters of check_is_none!, in the order of the checks
UnsupportedParams ==
    <<"display", "prompt", "max_age", "ui_locales", "id_token_hint", "login_hint",
      "acr_values">>

-----------------------------------------------------------------------------
(* handle_auth.  A request is [method, query, body, content_type,          *)
(* authorization]; query and body are lists of name/value pairs.           *)

HTTPS == Str(<<"h", "t", "t", "p", "s">>)

handle_auth_direct_uri_first(o, req) ==
    LET query == AuthQuery_from_str(req.query)
        q == query.v
        client_id == ClientId_try_from(q.client_id.v)
        uri == q.redirect_uri.v
        parsed == Url_parse(uri)
        ruq == RedirectUriSpecialFields_from_str(parsed.v.query.v)
    IN  IF req.method # "Get" THEN "UnsupportedMethod"
        ELSE IF ~query.ok THEN "MalformedQuery"
        ELSE IF ~client_id.ok THEN "MalformedClientId"
        ELSE IF ~parsed.ok THEN "MalformedRedirectUri"
        ELSE IF parsed.v.scheme # HTTPS \/ parsed.v.fragment.some
             THEN "MalformedRedirectUri"
        ELSE IF parsed.v.query.some /\ (~ruq.ok \/ ~empty(ruq.v))
             THEN "MalformedRedirectUri"
        ELSE IF ~check_mac(client_id.v, o.client_hmac_secret, uri) THEN "InvalidClientMAC"
        ELSE IF q.response_mode # Some(FORM_POST) THEN "UnsupportedResponseMode"
        ELSE "none"

\* the checks of handle_auth that answer with a direct error: the S52Error
\* of the first check that fails, "none" when all pass
handle_auth_direct(o, req) ==
    LET query == AuthQuery_from_str(req.query)
        q == query.v
        client_id == ClientId_try_from(q.client_id.v)
        uri == q.redirect_uri.v
        parsed == Url_parse(uri)
        ruq == RedirectUriSpecialFields_from_str(parsed.v.query.v)
    IN  IF req.method # "Get" THEN "UnsupportedMethod"
        ELSE IF ~query.ok THEN "MalformedQuery"
        ELSE IF ~client_id.ok THEN "MalformedClientId"
        ELSE IF ~check_mac(client_id.v, o.client_hmac_secret, uri) THEN "InvalidClientMAC"
        ELSE IF ~parsed.ok THEN "MalformedRedirectUri"
        ELSE IF parsed.v.scheme # HTTPS \/ parsed.v.fragment.some
             THEN "MalformedRedirectUri"
        ELSE IF parsed.v.query.some /\ (~ruq.ok \/ ~empty(ruq.v))
             THEN "MalformedRedirectUri"
        ELSE IF q.response_mode # Some(FORM_POST) THEN "UnsupportedResponseMode"
        ELSE "none"

\* the closure given to binary_search_by: "oidc".cmp(x)
scope_cmp(x) == StrCmp(OIDC, x)

\* the scope check of handle_auth: TRUE when the request passes it
scope_check(scope, std) ==
    IF ~scope.some THEN FALSE
    ELSE LET tokens == parse_scope(scope.v)
         IN  IF ~tokens.ok THEN FALSE
             ELSE binary_search_by([i \in 1..Len(tokens.v) |-> scope_cmp(tokens.v[i])],
                                   std).ok

\* the first parameter that check_is_none! finds set, "none" when there is none
first_unsupported(q) ==
    IF \E i \in 1..Len(UnsupportedParams) : q[UnsupportedParams[i]].some
    THEN UnsupportedParams[CHOOSE i \in 1..Len(UnsupportedParams) :
            /\ q[UnsupportedParams[i]].some
            /\ \A j \in 1..(i - 1) : ~q[UnsupportedParams[j]].some]
    ELSE "none"

handle_auth_redirect_nonce_first(o, std, q, client_id) ==
    IF q.response_type.v # CODE
    THEN [error |-> "UnsupportedResponseType", param |-> "", consulted |-> FALSE]
    ELSE IF ~is_valid_state(q.nonce)
    THEN [error |-> "InvalidNonce", param |-> "", consulted |-> FALSE]
    ELSE IF ~is_valid_state(q.state)
    THEN [error |-> "InvalidState", param |-> "", consulted |-> FALSE]
    ELSE IF first_unsupported(q) # "none"
    THEN [error |-> "UnsupportedParameter", param |-> first_unsupported(q),
          consulted |-> FALSE]
    ELSE IF ~scope_check(q.scope, std)
    THEN [error |-> "InvalidScope", param |-> "", consulted |-> FALSE]
    ELSE IF ~Handler_is_valid_client(o.handler, client_id, q.redirect_uri.v)
    THEN [error |-> "UnauthorizedClient", param |-> "", consulted |-> TRUE]
    ELSE [error |-> "none", param |-> "", consulted |-> TRUE]

\* the checks of handle_auth that answer through the user-agent: the
\* redirect_uri::Error of the first check that fails ("none" when all pass)
\* and whether Handler::is_valid_client was called
handle_auth_redirect(o, std, q, client_id) ==
    IF q.response_type.v # CODE
    THEN [error |-> "UnsupportedResponseType", param |-> "", consulted |-> FALSE]
    ELSE IF ~is_valid_state(q.state)
    THEN [error |-> "InvalidState", param |-> "", consulted |-> FALSE]
    ELSE IF first_unsupported(q) # "none"
    THEN [error |-> "UnsupportedParameter", param |-> first_unsupported(q),
          consulted |-> FALSE]
    ELSE IF ~is_valid_state(q.nonce)
    THEN [error |-> "InvalidNonce", param |-> "", consulted |-> FALSE]
    ELSE IF ~scope_check(q.scope, std)
    THEN [error |-> "InvalidScope", param |-> "", consulted |-> FALSE]
    ELSE IF ~Handler_is_valid_client(o.handler, client_id, q.redirect_uri.v)
    THEN [error |-> "UnauthorizedClient", param |-> "", consulted |-> TRUE]
    ELSE [error |-> "none", param |-> "", consulted |-> TRUE]

IsValidClientCall(client_id, redirect_uri) ==
    [fn |-> "is_valid_client", client_id |-> client_id.data, redirect_uri |-> redirect_uri]

HandleAuthCall(req, auth_request_handle) ==
    [fn |-> "handle_auth", req |-> req, auth_request_handle |-> auth_request_handle]

\* an err_resp that hands back only a state that is valid
err_resp_with_valid_state(q, error, param) ==
    AuthFormPost(q.redirect_uri.v,
                 ErrorData(error, param, IF is_valid_state(q.state) THEN q.state ELSE None))

\* err_resp of handle_auth
err_resp(q, error, param) ==
    AuthFormPost(q.redirect_uri.v, ErrorData(error, param, q.state))

\* Oidc::handle_auth: r is the value of the random source, `fails` whether
\* sealing reports an error
handle_auth(o, std, req, r, fails) ==
    LET direct == handle_auth_direct(o, req)
        q == AuthQuery_from_str(req.query).v
        client_id == ClientId_try_from(q.client_id.v).v
        via == handle_auth_redirect(o, std, q, client_id)
        consulted == IF via.consulted
                     THEN <<IsValidClientCall(client_id, q.redirect_uri.v)>> ELSE <<>>
        sealed == to_handle(AuthRequestData(q.state.v, q.nonce.v, q.redirect_uri.v,
                                            q.scope.v, q.client_id.v),
                            o.auth_request_handle_secret, r, fails)
    IN  IF direct # "none" THEN Outcome(AuthError(direct), <<>>)
        ELSE IF via.error # "none"
             THEN Outcome(err_resp(q, via.error, via.param), consulted)
        ELSE IF sealed.ok
             THEN Outcome(Handler_handle_auth(o.handler, req, sealed.v),
                          consulted \o <<HandleAuthCall(req, sealed.v)>>)
        ELSE Outcome(err_resp(q, "ServerError", ""), consulted)

-----------------------------------------------------------------------------
(* grant_code, handle_token and generate_client_credentials.               *)

TokenCreationData_with_state(data) ==
    [nonce |-> data.state, client_id |-> data.client_id, scope |-> data.scope]

\* TokenCreationData, as grant_code hands it to the id_token_creator
TokenCreationData(data) ==
    [nonce |-> data.nonce, client_id |-> data.client_id, scope |-> data.scope]

grant_code_data_answering_client(o, d, creator, r, fails) ==
    [result |-> Ok(Grant(d.redirect_uri, ErrorData("ServerError", "", Some(d.state)))),
     creator_calls |-> <<TokenCreationData(d)>>]

\* a grant_code that returns the failure of sealing to its caller
grant_code_data_returning_failure(o, d, creator, r, fails) ==
    LET calls == <<TokenCreationData(d)>>
        sealed == to_code(creator.v, o.auth_code_secret, d.client_id, r, fails)
    IN  IF ~creator.ok THEN [result |-> Err("IdTokenCreation"), creator_calls |-> calls]
        ELSE IF ~sealed.ok THEN [result |-> Err("ServerError"), creator_calls |-> calls]
        ELSE [result |-> Ok(Grant(d.redirect_uri, CodeGrant(sealed.v, d.state))),
              creator_calls |-> calls]

\* grant_code once the handle is opened to d: the id_token_creator is
\* called with the TokenCreationData, and its token is sealed into a code
grant_code_data(o, d, creator, r, fails) ==
    LET calls == <<TokenCreationData(d)>>
        sealed == to_code(creator.v, o.auth_code_secret, d.client_id, r, fails)
    IN  IF ~creator.ok THEN [result |-> Err("IdTokenCreation"), creator_calls |-> calls]
        ELSE IF ~sealed.ok
             THEN [result |-> Ok(Grant(d.redirect_uri,
                                       ErrorData("ServerError", "", Some(d.state)))),
                   creator_calls |-> calls]
        ELSE [result |-> Ok(Grant(d.redirect_uri, CodeGrant(sealed.v, d.state))),
              creator_calls |-> calls]

grant_code_creator_first(o, auth_request_handle, creator, r, fails) ==
    LET data == from_handle(auth_request_handle, o.auth_request_handle_secret)
        asked == <<[nonce |-> <<>>, client_id |-> <<>>, scope |-> <<>>]>>
    IN  IF ~creator.ok THEN [result |-> Err("IdTokenCreation"), creator_calls |-> asked]
        ELSE IF ~data.ok THEN [result |-> Err(data.v), creator_calls |-> asked]
        ELSE grant_code_data(o, data.v, creator, r, fails)

\* Oidc::grant_code: creator is what the id_token_creator returns, Ok(token)
\* or Err; the outcome holds the result and the calls made to the creator
grant_code(o, auth_request_handle, creator, r, fails) ==
    LET data == from_handle(auth_request_handle, o.auth_request_handle_secret)
    IN  IF ~data.ok THEN [result |-> Err(data.v), creator_calls |-> <<>>]
        ELSE grant_code_data(o, data.v, creator, r, fails)

handle_token_checks_without_password(o, req) ==
    LET query == TokenQuery_from_reader(req.body)
        q == query.v
        creds == Credentials_from_str(req.authorization.v)
        acd == from_code(q.code.v, o.auth_code_secret, q.client_id.v)
        client_id == ClientId_try_from(q.client_id.v)
    IN  IF req.method # "Post" THEN "UnsupportedMethod"
        ELSE IF req.content_type # "UrlEncoded" THEN "UnsupportedContentType"
        ELSE IF ~query.ok THEN "MalformedRequestBody"
        ELSE IF q.grant_type.v # AUTHORIZATION_CODE THEN "UnsupportedGrantType"
        ELSE IF ~req.authorization.some THEN "MissingClientCredentials"
        ELSE IF ~creds.ok THEN "MalformedClientCredentials"
        ELSE IF creds.v.userid # q.client_id.v THEN "InvalidClientCredentials"
        ELSE IF ~acd.ok THEN "InvalidAuthCode"
        ELSE IF ~client_id.ok THEN "MalformedClientId"
        ELSE IF ~check_mac(client_id.v, o.client_hmac_secret, q.redirect_uri.v)
             THEN "InvalidClientMAC"
        ELSE "none"

handle_token_checks_code_first(o, req) ==
    LET query == TokenQuery_from_reader(req.body)
        q == query.v
        creds == Credentials_from_str(req.authorization.v)
        acd == from_code(q.code.v, o.auth_code_secret, q.client_id.v)
        client_id == ClientId_try_from(q.client_id.v)
    IN  IF req.method # "Post" THEN "UnsupportedMethod"
        ELSE IF req.content_type # "UrlEncoded" THEN "UnsupportedContentType"
        ELSE IF ~query.ok THEN "MalformedRequestBody"
        ELSE IF q.grant_type.v # AUTHORIZATION_CODE THEN "UnsupportedGrantType"
        ELSE IF ~acd.ok THEN "InvalidAuthCode"
        ELSE IF ~req.authorization.some THEN "MissingClientCredentials"
        ELSE IF ~creds.ok THEN "MalformedClientCredentials"
        ELSE IF creds.v.userid # q.client_id.v THEN "InvalidClientCredentials"
        ELSE IF ~check_password(creds.v.userid, o.client_password_secret, creds.v.password)
             THEN "InvalidClientCredentials"
        ELSE IF ~client_id.ok THEN "MalformedClientId"
        ELSE IF ~check_mac(client_id.v, o.client_hmac_secret, q.redirect_uri.v)
             THEN "InvalidClientMAC"
        ELSE "none"

\* the checks of handle_token without the check of the redirect_uri
handle_token_checks_without_mac(o, req) ==
    LET query == TokenQuery_from_reader(req.body)
        q == query.v
        creds == Credentials_from_str(req.authorization.v)
        acd == from_code(q.code.v, o.auth_code_secret, q.client_id.v)
        client_id == ClientId_try_from(q.client_id.v)
    IN  IF req.method # "Post" THEN "UnsupportedMethod"
        ELSE IF req.content_type # "UrlEncoded" THEN "UnsupportedContentType"
        ELSE IF ~query.ok THEN "MalformedRequestBody"
        ELSE IF q.grant_type.v # AUTHORIZATION_CODE THEN "UnsupportedGrantType"
        ELSE IF ~req.authorization.some THEN "MissingClientCredentials"
        ELSE IF ~creds.ok THEN "MalformedClientCredentials"
        ELSE IF creds.v.userid # q.client_id.v THEN "InvalidClientCredentials"
        ELSE IF ~check_password(creds.v.userid, o.client_password_secret, creds.v.password)
             THEN "InvalidClientCredentials"
        ELSE IF ~acd.ok THEN "InvalidAuthCode"
        ELSE IF ~client_id.ok THEN "MalformedClientId"
        ELSE "none"

\* the checks of handle_token: the S52Error of the first check that fails,
\* "none" when all pass
handle_token_checks(o, req) ==
    LET query == TokenQuery_from_reader(req.body)
        q == query.v
        creds == Credentials_from_str(req.authorization.v)
        acd == from_code(q.code.v, o.auth_code_secret, q.client_id.v)
        client_id == ClientId_try_from(q.client_id.v)
    IN  IF req.method # "Post" THEN "UnsupportedMethod"
        ELSE IF req.content_type # "UrlEncoded" THEN "UnsupportedContentType"
        ELSE IF ~query.ok THEN "MalformedRequestBody"
        ELSE IF q.grant_type.v # AUTHORIZATION_CODE THEN "UnsupportedGrantType"
        ELSE IF ~req.authorization.some THEN "MissingClientCredentials"
        ELSE IF ~creds.ok THEN "MalformedClientCredentials"
        ELSE IF creds.v.userid # q.client_id.v THEN "InvalidClientCredentials"
        ELSE IF ~check_password(creds.v.userid, o.client_password_secret, creds.v.password)
             THEN "InvalidClientCredentials"
        ELSE IF ~acd.ok THEN "InvalidAuthCode"
        ELSE IF ~client_id.ok THEN "MalformedClientId"
        ELSE IF ~check_mac(client_id.v, o.client_hmac_secret, q.redirect_uri.v)
             THEN "InvalidClientMAC"
        ELSE "none"

\* a handle_token that asks the Handler about the client before it answers
handle_token_asking_handler(o, req) ==
    LET error == handle_token_checks(o, req)
        q == TokenQuery_from_reader(req.body).v
        acd == from_code(q.code.v, o.auth_code_secret, q.client_id.v)
        client_id == ClientId_try_from(q.client_id.v)
    IN  IF error # "none" THEN Outcome(TokenError(error), <<>>)
        ELSE IF ~Handler_is_valid_client(o.handler, client_id.v, q.redirect_uri.v)
        THEN Outcome(TokenError("InvalidClientCredentials"), <<>>)
        ELSE Outcome(IdToken(acd.v[1]), <<>>)

\* Oidc::handle_token
handle_token(o, req) ==
    LET error == handle_token_checks(o, req)
        q == TokenQuery_from_reader(req.body).v
        acd == from_code(q.code.v, o.auth_code_secret, q.client_id.v)
    IN  IF error # "none" THEN Outcome(TokenError(error), <<>>)
        ELSE Outcome(IdToken(acd.v[1]), <<>>)

\* Oidc::generate_client_credentials
generate_client_credentials(o, bare, redirect_uri) ==
    LET client_id == ClientId_new(bare, o.client_hmac_secret, redirect_uri)
    IN  [client_id |-> client_id,
         password |-> password(client_id.data, o.client_password_secret)]

-----------------------------------------------------------------------------
(* The outside world: the clients that get registered and the requests     *)
(* that are sent.  A request is the regular request of a registered client *)
(* with some of its parameters changed.                                    *)

U_A == Str(<<"h", "t", "t", "p", "s", ":", "/", "/", "h", "?", "a", "=", "b">>)
U_B == Str(<<"h", "t", "t", "p", "s", ":", "/", "/", "h">>)
U_HTTP == Str(<<"h", "t", "t", "p", ":", "/", "/", "h">>)
U_FRAGMENT == Str(<<"h", "t", "t", "p", "s", ":", "/", "/", "h", "#", "f">>)
U_RESERVED ==
    Str(<<"h", "t", "t", "p", "s", ":", "/", "/", "h", "?", "s", "t", "a", "t", "e", "=", "x">>)
U_RELATIVE == Str(<<"h">>)

\* the (bare_id, redirect_uri) pairs that generate_client_credentials is given
Registrations ==
    {<<Str(<<"a">>), U_A>>, <<Str(<<"b">>), U_B>>,
     <<Str(<<"a", "~", "b">>), U_A>>, <<Str(<<"a", ":", "b">>), U_A>>,
     <<INVALID_CLIENT, U_A>>, <<<<Ch(0)>>, U_A>>,
     <<Str(<<"a">>), U_HTTP>>, <<Str(<<"a">>), U_FRAGMENT>>,
     <<Str(<<"a">>), U_RESERVED>>, <<Str(<<"a">>), U_RELATIVE>>}

GOOD_STATE == Str(<<"s">>)
GOOD_NONCE == Str(<<"n">>)
ID_TOKEN == Str(<<"t">>)
X == Str(<<"x">>)

Param(name, value) == <<name, value>>

\* a deviation: what is changed (kind), which parameter (name), the new value
Dev(kind, name, value) == [kind |-> kind, name |-> name, value |-> value]

RemoveParam(pairs, name) == SelectSeq(pairs, LAMBDA p : p[1] # name)

ApplyDev(req, d) ==
    CASE d.kind = "method" -> [req EXCEPT !.method = d.name]
      [] d.kind = "content_type" -> [req EXCEPT !.content_type = d.name]
      [] d.kind = "authorization" -> [req EXCEPT !.authorization = Some(d.value)]
      [] d.kind = "no_authorization" -> [req EXCEPT !.authorization = None]
      [] d.kind = "set" ->
            [req EXCEPT !.query = IF @ = <<>> THEN @
                                  ELSE Append(RemoveParam(@, d.name), Param(d.name, d.value)),
                        !.body = IF @ = <<>> THEN @
                                 ELSE Append(RemoveParam(@, d.name), Param(d.name, d.value))]
      [] d.kind = "add" ->
            [req EXCEPT !.query = IF @ = <<>> THEN @ ELSE Append(@, Param(d.name, d.value)),
                        !.body = IF @ = <<>> THEN @ ELSE Append(@, Param(d.name, d.value))]
      [] d.kind = "drop" ->
            [req EXCEPT !.query = RemoveParam(@, d.name),
                        !.body = RemoveParam(@, d.name)]

RECURSIVE ApplyDevs(_, _)
ApplyDevs(req, ds) ==
    IF ds = <<>> THEN req ELSE ApplyDev(ApplyDevs(req, Tail(ds)), Head(ds))

\* what a deviation changes
DevTarget(d) ==
    CASE d.kind \in {"set", "add", "drop"} -> d.name
      [] d.kind \in {"authorization", "no_authorization"} -> "authorization"
      [] OTHER -> d.kind

\* the ways to take at most k deviations from a list, from position `from`
\* on, no two of them changing the same thing
RECURSIVE DevChoices(_, _, _)
DevChoices(list, from, k) ==
    IF k = 0 \/ from > Len(list) THEN {<<>>}
    ELSE DevChoices(list, from + 1, k)
         \cup {<<list[from]>> \o rest : rest \in
                 {r \in DevChoices(list, from + 1, k - 1) :
                    \A i \in 1..Len(r) : DevTarget(r[i]) # DevTarget(list[from])}}


\* the regular authorization request of a client c = [client_id, password, redirect_uri]
AuthRequest(c) ==
    [method |-> "Get",
     query |-> <<Param("response_type", CODE), Param("client_id", c.client_id.data),
                 Param("redirect_uri", c.redirect_uri), Param("response_mode", FORM_POST),
                 Param("state", GOOD_STATE), Param("nonce", GOOD_NONCE),
                 Param("scope", OIDC)>>,
     body |-> <<>>,
     content_type |-> "None",
     authorization |-> None]

Words(list) ==
    IF Len(list) = 0 THEN <<>>
    ELSE LET RECURSIVE Join(_)
             Join(i) == IF i = Len(list) THEN list[i]
                        ELSE list[i] \o <<Ch(32)>> \o Join(i + 1)
         IN  Join(1)

A == Str(<<"a">>)
B == Str(<<"b">>)
Z == Str(<<"z">>)

AuthDeviations ==
    <<Dev("method", "Post", <<>>),
      Dev("add", "foo", X),
      Dev("add", "state", GOOD_STATE),
      Dev("drop", "client_id", <<>>),
      Dev("set", "client_id", A),
      Dev("set", "client_id", <<Ch(0), Ch(TILDE)>>),
      Dev("set", "client_id", <<Ch(97), Ch(TILDE), Ch(33)>>),
      Dev("set", "redirect_uri", U_RELATIVE),
      Dev("set", "redirect_uri", U_HTTP),
      Dev("set", "redirect_uri", U_B),
      Dev("drop", "response_mode", <<>>),
      Dev("set", "response_mode", Str(<<"q", "u", "e", "r", "y">>)),
      Dev("set", "response_type", Str(<<"t", "o", "k", "e", "n">>)),
      Dev("drop", "state", <<>>),
      Dev("set", "state", <<>>),
      Dev("set", "state", <<Ch(0)>>),
      Dev("set", "display", X),
      Dev("set", "prompt", X),
      Dev("set", "max_age", X),
      Dev("set", "ui_locales", X),
      Dev("set", "id_token_hint", X),
      Dev("set", "login_hint", X),
      Dev("set", "acr_values", X),
      Dev("drop", "nonce", <<>>),
      Dev("set", "nonce", <<>>),
      Dev("set", "nonce", <<Ch(0)>>),
      Dev("drop", "scope", <<>>),
      Dev("set", "scope", <<>>),
      Dev("set", "scope", OIDC \o <<Ch(32), Ch(34)>>),
      Dev("set", "scope", Z),
      Dev("set", "scope", Words(<<OIDC, Z>>)),
      Dev("set", "scope", Words(<<Z, OIDC>>)),
      Dev("set", "scope", Words(<<A, OIDC>>)),
      Dev("set", "scope", Words(<<A, OIDC, Z>>)),
      Dev("set", "scope", Words(<<A, B, OIDC>>)),
      Dev("set", "scope", Words(<<OIDC, A>>))>>

\* the regular token request of a client c that holds the code `c_code`
TokenRequest(c, c_code) ==
    [method |-> "Post",
     query |-> <<>>,
     body |-> <<Param("grant_type", AUTHORIZATION_CODE), Param("code", c_code),
                Param("client_id", c.client_id.data),
                Param("redirect_uri", c.redirect_uri)>>,
     content_type |-> "UrlEncoded",
     authorization |-> Some(basic_auth(c))]

\* an envelope or MAC text cut short by four characters
CutShort(text) ==
    IF Len(text) = 1 /\ text[1].k \in {"b64", "b64url"} /\ text[1].n > 4
    THEN <<[text[1] EXCEPT !.n = @ - 4]>>
    ELSE <<>>

TokenDeviations(o, c, c_code) ==
    <<Dev("method", "Get", <<>>),
      Dev("content_type", "None", <<>>),
      Dev("content_type", "Json", <<>>),
      Dev("add", "foo", X),
      Dev("drop", "code", <<>>),
      Dev("set", "grant_type", X),
      Dev("no_authorization", "", <<>>),
      Dev("authorization", "", Str(<<"b", "a", "s", "i", "c", " ">>) \o X),
      Dev("authorization", "", BASIC \o X),
      Dev("authorization", "", BASIC \o <<Ch(32), Ch(33)>>),
      Dev("authorization", "", BASIC \o <<Ch(32)>> \o B64Encode(A, FALSE)),
      Dev("authorization", "", BASIC \o <<Ch(32)>> \o B64Encode(<<Ch(255), Ch(58)>>, FALSE)),
      Dev("authorization", "",
          Credentials_to_string([userid |-> c.client_id.data, password |-> X])),
      Dev("authorization", "",
          Credentials_to_string([userid |-> c.client_id.data,
                                 password |-> password(X, o.client_password_secret)])),
      Dev("authorization", "",
          Credentials_to_string([userid |-> X,
                                 password |-> password(X, o.client_password_secret)])),
      Dev("set", "code", X),
      Dev("set", "code", CutShort(c_code)),
      Dev("set", "client_id", A),
      Dev("set", "redirect_uri", U_RELATIVE),
      Dev("set", "redirect_uri", U_HTTP)>>

-----------------------------------------------------------------------------
(* The state machine.                                                      *)

MASTER_SECRET == Str(<<"s", "e", "c", "r", "e", "t">>)

Idle == [op |-> "idle"]

Threads == 1..NumThreads

Init ==
    /\ oidc = new("MockHandler", MASTER_SECRET)
    /\ build \in StdBuilds
    /\ seal_fails = FALSE
    /\ clients = {}
    /\ handle = None
    /\ code = None
    /\ call = Idle
    /\ threads = [t \in Threads |-> Idle]

\* what the id_token_creator returns: a token or Err(())
Creators == {Ok(ID_TOKEN), Err(<<>>)}

\* what grant_code is given as a handle: the Handler's, or something else
Handles == {handle.v, X, CutShort(handle.v)}

\* the registrations of the regular flow
RegularRegistrations == {<<A, U_A>>, <<B, U_B>>}

Irregular(cs) ==
    {c \in cs : <<bare_id(c.client_id), c.redirect_uri>> \notin RegularRegistrations}

\* the parameters a request may change, given the clients that are registered
Budget(cs) == MaxDeviations - Cardinality(Irregular(cs))

\* the operator registers a client and hands it its credentials
GenerateClientCredentials ==
    /\ call = Idle
    /\ handle = None /\ code = None
    /\ Cardinality(clients) < MaxClients
    /\ \E reg \in Registrations :
         LET cc == generate_client_credentials(oidc, reg[1], reg[2])
         IN  /\ clients' = clients \cup
                    {[client_id |-> cc.client_id, password |-> cc.password,
                      redirect_uri |-> reg[2]]}
             /\ Budget(clients') >= 0
    /\ UNCHANGED <<oidc, build, seal_fails, handle, code, call, threads>>

\* a user-agent sends an authorization request
HandleAuth ==
    /\ call = Idle
    /\ handle = None /\ code = None
    /\ \E c \in clients : \E ds \in DevChoices(AuthDeviations, 1, Budget(clients)) :
         \E r \in 1..NumNonces :
         LET req == ApplyDevs(AuthRequest(c), ds)
         IN  call' = [op |-> "handle_auth", req |-> req,
                      out |-> handle_auth(oidc, build, req, r, seal_fails)]
    /\ UNCHANGED <<oidc, build, seal_fails, clients, handle, code, threads>>

\* the Handler grants the request behind a handle
GrantCode ==
    /\ call = Idle
    /\ handle.some /\ code = None
    /\ \E h \in Handles : \E creator \in Creators : \E r \in 1..NumNonces :
         call' = [op |-> "grant_code", auth_request_handle |-> h, creator |-> creator,
                  out |-> grant_code(oidc, h, creator, r, seal_fails)]
    /\ UNCHANGED <<oidc, build, seal_fails, clients, handle, code, threads>>

\* a client sends a token request
HandleToken ==
    /\ call = Idle
    /\ code.some
    /\ \E c \in clients :
         \E ds \in DevChoices(TokenDeviations(oidc, c, code.v), 1, Budget(clients)) :
            LET req == ApplyDevs(TokenRequest(c, code.v), ds)
            IN  call' = [op |-> "handle_token", req |-> req,
                         out |-> handle_token(oidc, req)]
    /\ UNCHANGED <<oidc, build, seal_fails, clients, handle, code, threads>>

\* the caller takes the answer: the Handler keeps the handle it was passed,
\* the user-agent carries the granted code to the client
Return ==
    /\ call # Idle
    /\ handle' =
         IF call.op = "handle_auth" /\ call.out.resp.variant = "HandleAuthPage"
         THEN Some(call.out.resp.handle)
         ELSE IF call.op = "grant_code" /\ call.out.result.ok
                 /\ call.out.result.v.data.variant = "CodeGrant"
         THEN None
         ELSE handle
    /\ code' =
         IF call.op = "grant_code" /\ call.out.result.ok
            /\ call.out.result.v.data.variant = "CodeGrant"
         THEN Some(call.out.result.v.data.code)
         ELSE code
    /\ call' = Idle
    /\ UNCHANGED <<oidc, build, seal_fails, clients, threads>>

Next ==
    \/ GenerateClientCredentials
    \/ HandleAuth
    \/ GrantCode
    \/ HandleToken
    \/ Return

Spec == Init /\ [][Next]_vars

-----------------------------------------------------------------------------
(* Concurrent callers.  Every method of Oidc takes &self, and OidcImpl     *)
(* holds nothing but the handler and the four secrets, so callers share    *)
(* the engine and nothing else.  A call begins, other calls begin and end  *)
(* meanwhile, and the call ends with an outcome computed from the engine   *)
(* as it then is.  The world is that of a regular flow under way: two      *)
(* registered clients, a handle issued to the first, a code granted on it. *)

\* the ClientCredentials of a registration, as the world keeps them
Credentials(o, reg) ==
    LET cc == generate_client_credentials(o, reg[1], reg[2])
    IN  [client_id |-> cc.client_id, password |-> cc.password, redirect_uri |-> reg[2]]

InitConcurrent ==
    /\ oidc = new("MockHandler", MASTER_SECRET)
    /\ build \in StdBuilds
    /\ seal_fails = FALSE
    /\ clients = {Credentials(oidc, reg) : reg \in RegularRegistrations}
    /\ handle = Some(handle_auth(oidc, build, AuthRequest(Credentials(oidc, <<A, U_A>>)),
                                 1, seal_fails).resp.handle)
    /\ code = Some(grant_code(oidc, handle.v, Ok(ID_TOKEN), 1, seal_fails)
                       .result.v.data.code)
    /\ call = Idle
    /\ threads = [t \in Threads |-> Idle]

\* Sealing may start to fail: from then on every seal reports an error.
SealBreaks ==
    /\ call = Idle
    /\ ~seal_fails
    /\ seal_fails' = TRUE
    /\ UNCHANGED <<oidc, build, clients, handle, code, call, threads>>

NextSealFails ==
    \/ SealBreaks
    \/ GenerateClientCredentials
    \/ HandleAuth
    \/ GrantCode
    \/ HandleToken
    \/ Return

SpecSealFails == Init /\ [][NextSealFails]_vars

\* a client presents, as its code, the handle that handle_auth issued
PresentHandleAsCode ==
    /\ call = Idle
    /\ handle.some
    /\ \E c \in clients :
         \E ds \in DevChoices(TokenDeviations(oidc, c, handle.v), 1, Budget(clients)) :
            LET req == ApplyDevs(TokenRequest(c, handle.v), ds)
            IN  call' = [op |-> "handle_token", req |-> req,
                         out |-> handle_token(oidc, req)]
    /\ UNCHANGED <<oidc, build, seal_fails, clients, handle, code, threads>>

\* grant_code is called with, as its handle, the code that grant_code minted
PresentCodeAsHandle ==
    /\ call = Idle
    /\ code.some
    /\ \E creator \in Creators : \E r \in 1..NumNonces :
         call' = [op |-> "grant_code", auth_request_handle |-> code.v, creator |-> creator,
                  out |-> grant_code(oidc, code.v, creator, r, seal_fails)]
    /\ UNCHANGED <<oidc, build, seal_fails, clients, handle, code, threads>>

\* the handlers: the one of the tests, which rejects some clients, and one
\* that keeps the trait's is_valid_client, which accepts every client
Handlers == {"MockHandler", "DefaultHandler"}

InitHandlers ==
    /\ oidc \in {new(h, MASTER_SECRET) : h \in Handlers}
    /\ build \in StdBuilds
    /\ seal_fails = FALSE
    /\ clients = {}
    /\ handle = None
    /\ code = None
    /\ call = Idle
    /\ threads = [t \in Threads |-> Idle]

SpecHandlers == InitHandlers /\ [][Next]_vars

OTHER_TOKEN == Str(<<"u">>)

\* the Handler grants the request with a creator that returns another token
GrantOtherToken ==
    /\ call = Idle
    /\ handle.some /\ code = None
    /\ \E r \in 1..NumNonces :
         call' = [op |-> "grant_code", auth_request_handle |-> handle.v,
                  creator |-> Ok(OTHER_TOKEN),
                  out |-> grant_code(oidc, handle.v, Ok(OTHER_TOKEN), r, seal_fails)]
    /\ UNCHANGED <<oidc, build, seal_fails, clients, handle, code, threads>>

NextCrossed ==
    \/ PresentHandleAsCode
    \/ GrantOtherToken
    \/ PresentCodeAsHandle
    \/ GenerateClientCredentials
    \/ HandleAuth
    \/ GrantCode
    \/ HandleToken
    \/ Return

SpecCrossed == Init /\ [][NextCrossed]_vars

\* the client c with the password the engine o has for its client_id
Reissued(o, c) == [c EXCEPT !.password = password(c.client_id.data, o.client_password_secret)]

\* the calls a caller may make
Calls ==
    {[op |-> "generate_client_credentials", bare_id |-> reg[1], redirect_uri |-> reg[2]] :
        reg \in RegularRegistrations}
    \cup {[op |-> "handle_auth", req |-> AuthRequest(c), r |-> r] :
            c \in clients, r \in 1..NumNonces}
    \cup {[op |-> "grant_code", auth_request_handle |-> h, creator |-> creator, r |-> r] :
            h \in {handle.v, X}, creator \in Creators, r \in 1..NumNonces}
    \cup {[op |-> "handle_token", req |-> TokenRequest(c, code.v)] : c \in clients}
    \cup {[op |-> "handle_token", req |-> TokenRequest(Reissued(oidc, c), code.v)] :
            c \in clients}

\* what the engine o answers to the call c
Answer(o, std, c, fails) ==
    CASE c.op = "generate_client_credentials" ->
            generate_client_credentials(o, c.bare_id, c.redirect_uri)
      [] c.op = "handle_auth" -> handle_auth(o, std, c.req, c.r, fails)
      [] c.op = "grant_code" ->
            grant_code(o, c.auth_request_handle, c.creator, c.r, fails)
      [] c.op = "handle_token" -> handle_token(o, c.req)

\* a caller enters a method of the engine; `overlap` notes that the call
\* runs while another call is running
Begin(t) ==
    /\ threads[t].op \in {"idle", "done"}
    /\ \E c \in Calls :
         LET busy == \E u \in Threads : threads[u].op = "running"
         IN  threads' = [u \in Threads |->
                           IF u = t THEN [op |-> "running", call |-> c, overlap |-> busy]
                           ELSE IF threads[u].op = "running"
                           THEN [threads[u] EXCEPT !.overlap = TRUE]
                           ELSE threads[u]]
    /\ UNCHANGED <<oidc, build, seal_fails, clients, handle, code, call>>

End_single_use(t) ==
    /\ threads[t].op = "running"
    /\ LET c == threads[t].call
           out == Answer(oidc, build, c, seal_fails)
       IN  /\ threads' = [threads EXCEPT ![t] =
                            [op |-> "done", call |-> c, overlap |-> threads[t].overlap,
                             out |-> out]]
           /\ oidc' = IF c.op = "handle_token" /\ out.resp.variant = "Token.IdToken"
                      THEN [oidc EXCEPT !.auth_code_secret = Sha256(@)]
                      ELSE oidc
    /\ UNCHANGED <<build, seal_fails, clients, handle, code, call>>

\* the method returns: it has read the engine through &self and leaves it
\* as it was
End(t) ==
    /\ threads[t].op = "running"
    /\ LET c == threads[t].call
       IN  threads' = [threads EXCEPT ![t] =
                        [op |-> "done", call |-> c, overlap |-> threads[t].overlap,
                         out |-> Answer(oidc, build, c, seal_fails)]]
    /\ UNCHANGED <<oidc, build, seal_fails, clients, handle, code, call>>

NextConcurrent == \E t \in Threads : Begin(t) \/ End(t)

SpecConcurrent == InitConcurrent /\ [][NextConcurrent]_vars

-----------------------------------------------------------------------------
(* A change of the master secret.  The clients, the handle and the code    *)
(* were issued by an engine built from MASTER_SECRET; the callers now call *)
(* an engine built from another secret.                                    *)

OtherSecrets == {<<>>, MASTER_SECRET \o <<Ch(0)>>}

InitRekeyed ==
    /\ oidc \in {new("MockHandler", secret) : secret \in OtherSecrets}
    /\ build \in StdBuilds
    /\ seal_fails = FALSE
    /\ LET issuer == new("MockHandler", MASTER_SECRET)
           issued == handle_auth(issuer, build, AuthRequest(Credentials(issuer, <<A, U_A>>)),
                                 1, seal_fails).resp.handle
       IN  /\ clients = {Credentials(issuer, reg) : reg \in RegularRegistrations}
           /\ handle = Some(issued)
           /\ code = Some(grant_code(issuer, issued, Ok(ID_TOKEN), 1, seal_fails)
                              .result.v.data.code)
    /\ call = Idle
    /\ threads = [t \in Threads |-> Idle]

SpecRekeyed == InitRekeyed /\ [][NextConcurrent]_vars

-----------------------------------------------------------------------------
(* The functions of the engine, called on their own: `call` holds the      *)
(* function, its arguments and its result.                                 *)

\* the strings of at most n characters with codes in `codes`
Strings(codes, n) ==
    UNION {{[i \in 1..k |-> Ch(f[i])] : f \in [1..k -> codes]} : k \in 0..n}

LONG == [i \in 1..40 |-> Ch(97)]

\* structs that are sealed: AuthCodeData and AuthRequestData
Payloads ==
    {<<ID_TOKEN>>, <<<<>>>>, <<LONG>>,
     AuthRequestData(GOOD_STATE, GOOD_NONCE, U_A, OIDC,
                     ClientId_new(A, oidc.client_hmac_secret, U_A).data)}

Keys == {oidc.auth_code_secret, oidc.auth_request_handle_secret}

Aads == {<<>>, A, B}

Seal ==
    /\ call = Idle
    /\ \E p \in Payloads : \E key \in Keys : \E aad \in Aads : \E r \in 1..NumNonces :
         call' = [op |-> "seal", fields |-> p, key |-> key, aad |-> aad,
                  out |-> seal(p, key, aad, r, seal_fails)]
    /\ UNCHANGED <<oidc, build, seal_fails, clients, handle, code, threads>>

\* the envelope just sealed is unsealed, as the same struct
Unseal ==
    /\ call.op = "seal" /\ call.out.ok
    /\ \E key \in Keys : \E aad \in Aads :
         call' = [op |-> "unseal", sealed |-> call, envelope |-> call.out.v,
                  key |-> key, aad |-> aad,
                  out |-> unseal(call.out.v, key, aad, Len(call.fields))]
    /\ UNCHANGED <<oidc, build, seal_fails, clients, handle, code, threads>>

Bares == {<<>>, A, A \o <<Ch(TILDE)>> \o B}

Secrets == {oidc.client_hmac_secret, oidc.client_password_secret}

Uris == {U_A, U_B}

\* what is done to a MAC or password text before it is checked
Tamperings == {"none", "prefix", "empty", "not_base64"}

Tamper(text, how) ==
    CASE how = "none" -> text
      [] how = "prefix" -> CutShort(text)
      [] how = "empty" -> <<>>
      [] how = "not_base64" -> text \o <<Ch(33)>>

\* a ClientId is made, its MAC is tampered with, and it is checked as the
\* ClientId of a bare_id under a secret and a redirect_uri
CheckMac ==
    /\ call = Idle
    /\ \E bare \in Bares, secret \in Secrets, uri \in Uris, how \in Tamperings :
       \E bare2 \in Bares, secret2 \in Secrets, uri2 \in Uris :
         LET made == ClientId_new(bare, secret, uri)
             c == [data |-> bare2 \o <<Ch(TILDE)>> \o Tamper(mac(made), how),
                   tilde_pos |-> Len(bare2)]
         IN  call' = [op |-> "check_mac", made |-> <<bare, secret, uri>>, how |-> how,
                      client_id |-> c, secret |-> secret2, redirect_uri |-> uri2,
                      out |-> check_mac(c, secret2, uri2)]
    /\ UNCHANGED <<oidc, build, seal_fails, clients, handle, code, threads>>

\* client_id strings a password is made for
Ids == {<<>>, A, X, ClientId_new(A, oidc.client_hmac_secret, U_A).data}

CheckPassword ==
    /\ call = Idle
    /\ \E id \in Ids, secret \in Secrets, how \in Tamperings :
       \E id2 \in Ids, secret2 \in Secrets :
         LET pw == Tamper(password(id, secret), how)
         IN  call' = [op |-> "check_password", made |-> <<id, secret>>, how |-> how,
                      client_id |-> id2, secret |-> secret2, password |-> pw,
                      out |-> check_password(id2, secret2, pw)]
    /\ UNCHANGED <<oidc, build, seal_fails, clients, handle, code, threads>>

\* codes around the edges of the scope-token class, and the space
EdgeCodes == {31, 32, 33, 34, 35, 91, 92, 93, 126, 127, 128}

ScopeTexts == Strings(EdgeCodes, 2) \cup Strings({32, 97, 98}, MaxScopeLen)

ParseScope ==
    /\ call = Idle
    /\ \E scope \in ScopeTexts :
         call' = [op |-> "parse_scope", scope |-> scope, out |-> parse_scope(scope)]
    /\ UNCHANGED <<oidc, build, seal_fails, clients, handle, code, threads>>

\* the tokens parse_scope returned are joined by single spaces and parsed
ReparseScope ==
    /\ call.op = "parse_scope" /\ call.out.ok
    /\ call' = [op |-> "parse_scope_again", first |-> call,
                scope |-> Words(call.out.v), out |-> parse_scope(Words(call.out.v))]
    /\ UNCHANGED <<oidc, build, seal_fails, clients, handle, code, threads>>

\* texts of the escaped characters and a letter
HtmlTexts == Strings({60, 62, 38, 39, 34, 97}, MaxHtmlLen)

Escape ==
    /\ call = Idle
    /\ \E s \in HtmlTexts :
         call' = [op |-> "escape", s |-> s, out |-> escape(s)]
    /\ UNCHANGED <<oidc, build, seal_fails, clients, handle, code, threads>>

QUOTE == <<Ch(34)>>

\* into_body: the line written for a field of a form-POST response
input_tag(name, value) ==
    <<Ch(60)>> \o Str(<<"i", "n", "p", "u", "t", " ", "t", "y", "p", "e", "=">>)
        \o QUOTE \o Str(<<"h", "i", "d", "d", "e", "n">>) \o QUOTE
        \o Str(<<" ", "n", "a", "m", "e", "=">>) \o QUOTE \o escape(name) \o QUOTE
        \o Str(<<" ", "v", "a", "l", "u", "e", "=">>) \o QUOTE \o escape(value) \o QUOTE
        \o <<Ch(62), Ch(10)>>

\* into_body: the form tag of a form-POST response
form_tag(redirect_uri) ==
    <<Ch(60)>> \o Str(<<"f", "o", "r", "m", " ", "m", "e", "t", "h", "o", "d", "=">>)
        \o QUOTE \o Str(<<"p", "o", "s", "t">>) \o QUOTE
        \o Str(<<" ", "a", "c", "t", "i", "o", "n", "=">>) \o QUOTE
        \o escape(redirect_uri) \o QUOTE \o <<Ch(62)>>

\* field values and redirect_uris that try to leave their attribute
FieldValues == {<<Ch(97)>>, <<Ch(34), Ch(62)>>, <<Ch(39), Ch(60)>>}

BodyCall(name, value, redirect_uri) ==
    [op |-> "into_body", name |-> name, value |-> value, redirect_uri |-> redirect_uri,
     input |-> input_tag(name, value), form |-> form_tag(redirect_uri)]

\* the bounce page of a form-POST response is written
IntoBody ==
    /\ call = Idle
    /\ \E name \in HtmlTexts, value \in FieldValues, redirect_uri \in FieldValues :
         call' = BodyCall(name, value, redirect_uri)
    /\ UNCHANGED <<oidc, build, seal_fails, clients, handle, code, threads>>

\* the variants of redirect_uri::Error
RedirectErrors ==
    {"UnsupportedResponseType", "UnsupportedParameter", "InvalidState", "InvalidNonce",
     "InvalidScope", "UnauthorizedClient", "ServerError"}

\* responses of every variant: the direct errors of both endpoints, bounces
\* with every error with and without state, grants and a token
Responses ==
    {AuthError(e) : e \in S52Errors} \cup {TokenError(e) : e \in S52Errors}
        \cup {AuthFormPost(U_A, ErrorData(e, "", st)) :
                 e \in RedirectErrors, st \in {None, Some(GOOD_STATE), Some(<<>>)}}
        \cup {Grant(uri, CodeGrant(ID_TOKEN, GOOD_STATE)) : uri \in Uris}
        \cup {Grant(uri, ErrorData("ServerError", "", Some(GOOD_STATE))) : uri \in Uris}
        \cup {IdToken(t) : t \in {ID_TOKEN, <<>>}}

\* a response is turned into an HTTP response: its status, its headers and
\* the error written into its body
Respond ==
    /\ call = Idle
    /\ \E resp \in Responses :
         call' = [op |-> "respond", resp |-> resp, status |-> status(resp),
                  headers |-> headers(resp),
                  error |-> IF resp.variant \in {"Auth.Error", "Token.Error"}
                            THEN S52Error_error(resp.error) ELSE ""]
    /\ UNCHANGED <<oidc, build, seal_fails, clients, handle, code, threads>>

\* texts of a letter, the tilde, and the characters next to the printable
\* ones
ClientIdTexts == Strings({31, 32, 97, TILDE, 127}, MaxClientIdLen)

\* a text is parsed as a ClientId, and its bare_id and mac are taken
ParseClientId ==
    /\ call = Idle
    /\ \E s \in ClientIdTexts :
         LET c == ClientId_try_from(s)
         IN  call' = [op |-> "client_id", s |-> s, out |-> c,
                      bare_id |-> IF c.ok THEN bare_id(c.v) ELSE <<>>,
                      mac |-> IF c.ok THEN mac(c.v) ELSE <<>>]
    /\ UNCHANGED <<oidc, build, seal_fails, clients, handle, code, threads>>

\* bare ids of a letter, the space, the tilde, and a control character
BareIdTexts == Strings({31, 32, 97, TILDE}, MaxClientIdLen)

NewCall(bare, secret, redirect_uri, built) ==
    [op |-> "client_id_new", bare_id |-> bare, secret |-> secret,
     redirect_uri |-> redirect_uri, out |-> built, parsed |-> ClientId_try_from(built.data)]

\* a ClientId is constructed, and its string is parsed
NewClientId ==
    /\ call = Idle
    /\ \E bare \in BareIdTexts, secret \in Secrets, redirect_uri \in Uris :
         call' = NewCall(bare, secret, redirect_uri, ClientId_new(bare, secret, redirect_uri))
    /\ UNCHANGED <<oidc, build, seal_fails, clients, handle, code, threads>>

MaxMacTextLen == 2

\* bare ids and redirect_uris of a letter and the NUL byte
MacTexts == Strings({0, 97}, MaxMacTextLen)

MacsCall(b1, u1, b2, u2, secret) ==
    [op |-> "compute_mac", b1 |-> b1, u1 |-> u1, b2 |-> b2, u2 |-> u2,
     mac1 |-> compute_mac(b1, secret, u1), mac2 |-> compute_mac(b2, secret, u2)]

\* the MACs of two pairs of bare_id and redirect_uri are computed
ComputeMacs ==
    /\ call = Idle
    /\ \E b1 \in MacTexts, u1 \in MacTexts, b2 \in MacTexts, u2 \in MacTexts :
         call' = MacsCall(b1, u1, b2, u2, oidc.client_hmac_secret)
    /\ UNCHANGED <<oidc, build, seal_fails, clients, handle, code, threads>>

\* userids and passwords: of a letter, the colon and the space
CredentialTexts == Strings({58, 97, 32}, MaxCredentialLen)

\* Credentials are written as a header value, and the value is parsed
FormatCredentials ==
    /\ call = Idle
    /\ \E userid \in CredentialTexts, pw \in CredentialTexts :
         LET c == [userid |-> userid, password |-> pw]
         IN  call' = [op |-> "basic_auth", creds |-> c, header |-> Credentials_to_string(c),
                      out |-> Credentials_from_str(Credentials_to_string(c))]
    /\ UNCHANGED <<oidc, build, seal_fails, clients, handle, code, threads>>

\* the parts of an Authorization header value: what precedes the scheme,
\* the scheme, what divides it from the payload, the payload and what
\* follows it
HeaderLeads == {<<>>, <<Ch(32)>>, <<Ch(9), Ch(32)>>}
HeaderSchemes == {BASIC, Str(<<"b", "a", "s", "i", "c">>), Take(BASIC, 4)}
HeaderSeparators == {<<>>, <<Ch(32)>>, <<Ch(9), Ch(32)>>, <<Ch(97)>>}
HeaderTrails == {<<>>, <<Ch(32)>>}

\* payloads: the base64 of a text (with and without colon, UTF-8 or not),
\* or a text that is no base64 (a character outside the alphabet, padding
\* missing, a space inside)
HeaderPayloads ==
    {[encoded |-> TRUE, utf8 |-> TRUE, text |-> t] :
         t \in {<<>>, A, <<Ch(58)>>, A \o <<Ch(58)>> \o B,
                A \o <<Ch(58)>> \o B \o <<Ch(58)>>, <<Ch(58), Ch(195), Ch(169)>>}}
      \cup {[encoded |-> TRUE, utf8 |-> FALSE, text |-> t] :
               t \in {<<Ch(255), Ch(58)>>, <<Ch(58), Ch(195)>>}}
      \cup {[encoded |-> FALSE, utf8 |-> TRUE, text |-> t] :
               t \in {<<Ch(33)>>, Take(B64Encode(<<Ch(58)>>, FALSE), 3),
                      Take(B64Encode(<<Ch(58)>>, FALSE), 2) \o <<Ch(32)>>
                          \o Drop(B64Encode(<<Ch(58)>>, FALSE), 2)}}

\* the call of Credentials::from_str on a header value, and the answer of
\* handle_token to an otherwise regular request with that value
BasicCall(parts, header) ==
    [op |-> "basic_parse", parts |-> parts, header |-> header,
     out |-> Credentials_from_str(header),
     reported |-> handle_token(oidc,
                      [TokenRequest(Credentials(oidc, <<A, U_A>>), X)
                           EXCEPT !.authorization = Some(header)]).resp]

ParseBasic ==
    /\ call = Idle
    /\ \E lead \in HeaderLeads, scheme \in HeaderSchemes, sep \in HeaderSeparators :
         \E payload \in HeaderPayloads, trail \in HeaderTrails :
            call' = BasicCall(
                [lead |-> lead, scheme |-> scheme, sep |-> sep, payload |-> payload,
                 trail |-> trail],
                lead \o scheme \o sep
                    \o (IF payload.encoded THEN B64Encode(payload.text, FALSE)
                        ELSE payload.text)
                    \o trail)
    /\ UNCHANGED <<oidc, build, seal_fails, clients, handle, code, threads>>

\* the parts of a redirect_uri: what precedes the query, the fields of the
\* query and the fragment
UriPrefixes ==
    {Str(<<"h", "t", "t", "p", "s", ":", "/", "/", "h">>),
     Str(<<"h", "t", "t", "p", ":", "/", "/", "h">>),
     Str(<<"/", "/", "h">>),
     Str(<<"h", "t", "t", "p", "s", ":", "/", "/">>)}

\* the names of the fields that are POSTed to a redirect_uri, or were in
\* the authorization request
ReservedNames ==
    {Str(<<"c", "o", "d", "e">>), Str(<<"s", "t", "a", "t", "e">>),
     Str(<<"n", "o", "n", "c", "e">>), Str(<<"e", "r", "r", "o", "r">>),
     Str(<<"e", "r", "r", "o", "r", "_", "d", "e", "s", "c", "r", "i", "p", "t", "i", "o", "n">>),
     Str(<<"e", "r", "r", "o", "r", "_", "u", "r", "i">>)}

\* a field of a query: name, name= or name=b
Field(name, form) ==
    [name |-> name,
     text |-> name \o (CASE form = "bare" -> <<>>
                         [] form = "blank" -> <<Ch(61)>>
                         [] form = "set" -> <<Ch(61)>> \o B)]

UriQueries ==
    {None, Some(<<>>), Some(<<Field(A, "set")>>), Some(<<Field(A, "set"), Field(A, "set")>>),
     Some(<<Field(CODE, "set"), Field(CODE, "set")>>)}
      \cup {Some(<<Field(n, f)>>) : n \in ReservedNames, f \in {"bare", "blank", "set"}}
      \cup {Some(<<Field(A, "set"), Field(n, "blank")>>) : n \in ReservedNames}
      \cup {Some(<<Field(n, "set"), Field(A, "set")>>) : n \in ReservedNames}

UriFragments == {None, Some(<<>>), Some(A)}

RECURSIVE QueryText(_)
QueryText(fields) ==
    IF fields = <<>> THEN <<>>
    ELSE IF Len(fields) = 1 THEN fields[1].text
    ELSE fields[1].text \o <<Ch(38)>> \o QueryText(Tail(fields))

UriText(parts) ==
    parts.prefix
        \o (IF parts.query.some THEN <<Ch(63)>> \o QueryText(parts.query.v) ELSE <<>>)
        \o (IF parts.fragment.some THEN <<Ch(35)>> \o parts.fragment.v ELSE <<>>)

\* handle_auth on the regular request of the client registered with the
\* redirect_uri
RedirectUriCall(parts, uri) ==
    [op |-> "redirect_uri", parts |-> parts, uri |-> uri,
     out |-> handle_auth(oidc, build, AuthRequest(Credentials(oidc, <<A, uri>>)), 1,
                         seal_fails)]

CheckRedirectUri ==
    /\ call = Idle
    /\ \E prefix \in UriPrefixes, query \in UriQueries, fragment \in UriFragments :
         call' = RedirectUriCall(
                    [prefix |-> prefix, query |-> query, fragment |-> fragment],
                    UriText([prefix |-> prefix, query |-> query, fragment |-> fragment]))
    /\ UNCHANGED <<oidc, build, seal_fails, clients, handle, code, threads>>

\* what is done to an envelope before it is opened
Damages == {"none", "not_base64url", "empty", "short", "prefix", "other_bytes", "other_nonce"}

\* sealed is the call of seal that made the envelope
Damage(sealed, how) ==
    CASE how = "none" -> sealed.out.v
      [] how = "not_base64url" -> sealed.out.v \o <<Ch(43)>>
      [] how = "empty" -> <<>>
      [] how = "short" -> B64Encode(Take(LONG, NONCE_LEN - 1), TRUE)
      [] how = "prefix" -> CutShort(sealed.out.v)
      [] how = "other_bytes" -> B64Encode(LONG, TRUE)
      [] how = "other_nonce" ->
            B64Encode(generate_nonce(NumNonces + 1)
                          \o encrypt(sealed.key, generate_nonce(1), to_vec(sealed.fields),
                                     sealed.aad), TRUE)

OpenCall(sealed, how, envelope, key, client_id) ==
    [op |-> "open", sealed |-> sealed, how |-> how, envelope |-> envelope, key |-> key,
     client_id |-> client_id,
     as_handle |-> from_handle(envelope, key),
     as_code |-> from_code(envelope, key, client_id)]

\* the envelope just sealed is damaged and opened as a handle and as a code
Open ==
    /\ call.op = "seal" /\ call.out.ok
    /\ \E how \in Damages, key \in Keys, client_id \in Aads :
         call' = OpenCall(call, how, Damage(call, how), key, client_id)
    /\ UNCHANGED <<oidc, build, seal_fails, clients, handle, code, threads>>

NextPure ==
    \/ Open
    \/ IntoBody
    \/ ComputeMacs
    \/ NewClientId
    \/ CheckRedirectUri
    \/ FormatCredentials
    \/ ParseBasic
    \/ ParseClientId
    \/ Respond
    \/ Escape
    \/ Seal
    \/ Unseal
    \/ CheckMac
    \/ CheckPassword
    \/ ParseScope
    \/ ReparseScope
    \/ Return

SpecPure == Init /\ [][NextPure]_vars

-----------------------------------------------------------------------------
(* Properties.  They speak about the call in flight: its arguments and its *)
(* outcome.                                                                *)

InAuth == call.op = "handle_auth"
InGrant == call.op = "grant_code"
InToken == call.op = "handle_token"

\* an acceptable redirect_uri: an https URL without fragment and without a
\* reserved field in its query
Acceptable(uri) ==
    LET parsed == Url_parse(uri)
    IN  /\ parsed.ok
        /\ parsed.v.scheme = HTTPS
        /\ ~parsed.v.fragment.some
        /\ parsed.v.query.some =>
             \A i \in 1..Len(UrlencodedPairs(parsed.v.query.v)) :
                UrlencodedPairs(parsed.v.query.v)[i][1] \notin SpecialFieldNames

\* the MAC of client_id `str` is the MAC of its bare_id and of uri
MacAuthenticates(str, uri) ==
    LET tilde == RFind(str, Ch(TILDE))
        m == B64Decode(Drop(str, tilde), TRUE)
    IN  /\ tilde > 0
        /\ m.ok
        /\ m.v = HmacSha256(oidc.client_hmac_secret, Take(str, tilde - 1) \o <<Ch(0)>> \o uri)

\* the client of an auth_code: the AAD that its ciphertext binds
CodeClient(c) ==
    LET b == B64Decode(c, TRUE)
    IN  IF b.ok /\ Len(b.v) = 2 /\ b.v[2].k = "aead" THEN Some(b.v[2].aad) ELSE None

\* the clients C1 speaks about: printable bare_id, acceptable redirect_uri,
\* and not turned away by the Handler's own policy
HappyClients ==
    {c \in clients : /\ is_printable_ascii(bare_id(c.client_id))
                     /\ Acceptable(c.redirect_uri)
                     /\ Handler_is_valid_client(oidc.handler, c.client_id, c.redirect_uri)}

HandleAuthCalls(out) ==
    SelectSeq(out.handler_calls, LAMBDA x : x.fn = "handle_auth")

\* C1 (authorization step): the regular request of a client with printable
\* bare_id and acceptable redirect_uri passes a handle to Handler::handle_auth
HappyAuth ==
    InAuth /\ (\E c \in HappyClients : call.req = AuthRequest(c))
        => Len(HandleAuthCalls(call.out)) = 1

\* C1 (grant step): grant_code on that handle with a creator returning t
\* returns a CodeGrant targeting redirect_uri with the same state
HappyGrant ==
    InGrant /\ call.auth_request_handle = handle.v /\ call.creator = Ok(ID_TOKEN)
        => LET d == from_handle(handle.v, oidc.auth_request_handle_secret).v
               res == call.out.result
           IN  /\ res.ok
               /\ res.v.variant = "Grant"
               /\ res.v.uri = d.redirect_uri
               /\ res.v.data.variant = "CodeGrant"
               /\ res.v.data.state = d.state

\* C1 (token step): the regular token request with that code, creds.client_id,
\* redirect_uri and creds.basic_auth() returns IdToken(t)
HappyToken ==
    InToken /\ (\E c \in HappyClients :
                    /\ call.req = TokenRequest(c, code.v)
                    /\ CodeClient(code.v) = Some(c.client_id.data))
        => call.out.resp = IdToken(ID_TOKEN)

\* C1: end to end, for every printable bare_id and every acceptable
\* redirect_uri, the regular authorization request passes a handle to the
\* Handler, grant_code on it returns a CodeGrant, and the regular token
\* request with that code returns IdToken(t)
C1_HappyPath == HappyAuth /\ HappyGrant /\ HappyToken

\* a token request of a client whose bare_id contains a colon has been
\* answered, after authorization and grant went through for that client
C1_ColonClientRefused ==
    /\ InToken
    /\ \E c \in HappyClients :
         /\ call.req = TokenRequest(c, code.v)
         /\ CodeClient(code.v) = Some(c.client_id.data)
         /\ Find(bare_id(c.client_id), Ch(58)) > 0
    /\ call.out.resp = TokenError("InvalidClientCredentials")


\* the body of the token request in flight, and its Basic credentials
TokenBody == TokenQuery_from_reader(call.req.body)
TokenCreds == Credentials_from_str(call.req.authorization.v)

\* the token request in flight passes the checks that come before the
\* client's credentials are looked at
BeforeCredentials ==
    /\ call.req.method = "Post"
    /\ call.req.content_type = "UrlEncoded"
    /\ TokenBody.ok
    /\ TokenBody.v.grant_type.v = AUTHORIZATION_CODE

\* the token request in flight carries the credentials of the client_id in
\* its body: userid and derived password
CredentialsValid ==
    /\ call.req.authorization.some
    /\ TokenCreds.ok
    /\ TokenCreds.v.userid = TokenBody.v.client_id.v
    /\ TokenCreds.v.password =
         B64Encode(HmacSha256(oidc.client_password_secret, TokenBody.v.client_id.v), TRUE)

\* the token request in flight presents the code that grant_code produced,
\* which was minted for a client other than the one the body names
CrossClient ==
    /\ TokenBody.ok
    /\ TokenBody.v.code.v = code.v
    /\ CodeClient(code.v).some
    /\ CodeClient(code.v).v # TokenBody.v.client_id.v

\* C2: an auth_code produced by grant_code for client A is never turned
\* into an id_token by a token request whose body names a client B # A; when
\* B's credentials are otherwise valid the answer is InvalidAuthCode
C2_NoCrossClientRedemption ==
    InToken /\ CrossClient
        => /\ call.out.resp.variant # "Token.IdToken"
           /\ BeforeCredentials /\ CredentialsValid
                => call.out.resp = TokenError("InvalidAuthCode")

\* client B, with its own valid credentials, has presented the code of A
C2_Witness ==
    /\ InToken /\ CrossClient /\ BeforeCredentials /\ CredentialsValid
    /\ MacAuthenticates(TokenBody.v.client_id.v, TokenBody.v.redirect_uri.v)
    /\ call.out.resp = TokenError("InvalidAuthCode")

\* C3: handle_token returns an id_token only to a request whose
\* Authorization header parses as Basic credentials with userid equal to the
\* body's client_id and the password derived from it; when the credentials
\* are what fails, a missing header gives MissingClientCredentials, an
\* unparsable one MalformedClientCredentials, a userid mismatch or wrong
\* password InvalidClientCredentials
C3_CredentialsRequired ==
    InToken =>
        /\ call.out.resp.variant = "Token.IdToken" => BeforeCredentials /\ CredentialsValid
        /\ BeforeCredentials =>
            /\ ~call.req.authorization.some
                 => call.out.resp = TokenError("MissingClientCredentials")
            /\ call.req.authorization.some /\ ~TokenCreds.ok
                 => call.out.resp = TokenError("MalformedClientCredentials")
            /\ call.req.authorization.some /\ TokenCreds.ok /\ ~CredentialsValid
                 => call.out.resp = TokenError("InvalidClientCredentials")

\* a request with the right userid and the password of another client has
\* been refused, although its code and redirect_uri were right
C3_Witness ==
    /\ InToken /\ BeforeCredentials
    /\ call.req.authorization.some /\ TokenCreds.ok
    /\ TokenCreds.v.userid = TokenBody.v.client_id.v
    /\ B64Decode(TokenCreds.v.password, TRUE).ok
    /\ ~CredentialsValid
    /\ TokenBody.v.code.v = code.v
    /\ CodeClient(code.v) = Some(TokenBody.v.client_id.v)
    /\ call.out.resp = TokenError("InvalidClientCredentials")


\* the query of the authorization request in flight
AuthQ == AuthQuery_from_str(call.req.query)

\* how far the authorization request in flight gets through the checks
\* that are answered directly: each of these says that the check it is named
\* after passes and all checks before it do
MethodOk == call.req.method = "Get"
QueryOk == MethodOk /\ AuthQ.ok
ClientIdOk ==
    /\ QueryOk
    /\ RFind(AuthQ.v.client_id.v, Ch(TILDE)) > 0
    /\ is_printable_ascii(AuthQ.v.client_id.v)
MacOk == ClientIdOk /\ MacAuthenticates(AuthQ.v.client_id.v, AuthQ.v.redirect_uri.v)
UriOk == MacOk /\ Acceptable(AuthQ.v.redirect_uri.v)
ModeOk == UriOk /\ AuthQ.v.response_mode = Some(FORM_POST)

\* C4: handle_auth answers with a form-POST only when client_id parses, its
\* MAC authenticates the request's redirect_uri, that is an https URL without
\* fragment and reserved fields, and response_mode is form_post, and then the
\* form-POST goes to exactly the request's redirect_uri; when one of these
\* fails the answer is a direct error, which names no target
C4_NoOpenRedirect ==
    InAuth =>
        /\ call.out.resp.variant = "Auth.FormPost"
             => ModeOk /\ call.out.resp.uri = AuthQ.v.redirect_uri.v
        /\ ~ModeOk
             => /\ call.out.resp.variant = "Auth.Error"
                /\ DOMAIN call.out.resp = {"variant", "error"}

\* an error has been sent by form-POST to the redirect_uri of the request
C4_Witness ==
    /\ InAuth /\ ModeOk
    /\ call.out.resp.variant = "Auth.FormPost"
    /\ call.out.resp.uri = AuthQ.v.redirect_uri.v
    /\ call.out.resp.data.variant = "Error"

\* C6: the direct error of handle_auth is that of the first failing check in
\* the order method, query, client_id, MAC, redirect_uri, response_mode; an
\* unparsable redirect_uri with a MAC that does not match gives
\* InvalidClientMAC
C6_DirectErrorOrder ==
    InAuth =>
        /\ ~MethodOk => call.out.resp = AuthError("UnsupportedMethod")
        /\ MethodOk /\ ~QueryOk => call.out.resp = AuthError("MalformedQuery")
        /\ QueryOk /\ ~ClientIdOk => call.out.resp = AuthError("MalformedClientId")
        /\ ClientIdOk /\ ~MacOk => call.out.resp = AuthError("InvalidClientMAC")
        /\ MacOk /\ ~UriOk => call.out.resp = AuthError("MalformedRedirectUri")
        /\ UriOk /\ ~ModeOk => call.out.resp = AuthError("UnsupportedResponseMode")
        /\ ModeOk => call.out.resp.variant # "Auth.Error"

\* a request whose redirect_uri does not parse and whose MAC does not match
\* it has been answered with InvalidClientMAC
C6_Witness ==
    /\ InAuth /\ ClientIdOk
    /\ ~Url_parse(AuthQ.v.redirect_uri.v).ok
    /\ ~MacAuthenticates(AuthQ.v.client_id.v, AuthQ.v.redirect_uri.v)
    /\ call.out.resp = AuthError("InvalidClientMAC")


\* how far the authorization request in flight gets through the checks
\* that are answered through the user-agent
TypeOk == ModeOk /\ AuthQ.v.response_type.v = CODE
StateOk ==
    /\ TypeOk
    /\ AuthQ.v.state.some /\ AuthQ.v.state.v # <<>> /\ is_printable_ascii(AuthQ.v.state.v)
ParamsOk == StateOk /\ \A i \in 1..Len(UnsupportedParams) : ~AuthQ.v[UnsupportedParams[i]].some
NonceOk ==
    /\ ParamsOk
    /\ AuthQ.v.nonce.some /\ AuthQ.v.nonce.v # <<>> /\ is_printable_ascii(AuthQ.v.nonce.v)
ScopeOk == NonceOk /\ scope_check(AuthQ.v.scope, build)
ClientOk ==
    /\ ScopeOk
    /\ Handler_is_valid_client(oidc.handler, ClientId_try_from(AuthQ.v.client_id.v).v,
                               AuthQ.v.redirect_uri.v)

\* the form-POST that carries error e (about parameter p) to the request's
\* redirect_uri, with the request's state
ViaRedirect(e, p) ==
    AuthFormPost(AuthQ.v.redirect_uri.v, ErrorData(e, p, AuthQ.v.state))

\* the token list of a scope holds the token oidc
ContainsOidc(scope) ==
    LET tokens == Split(scope, Ch(32))
    IN  \E i \in 1..Len(tokens) : tokens[i] = OIDC

\* C5: a request that passes every check before the scope check is answered
\* with InvalidScope if and only if scope is absent, does not parse, or its
\* tokens do not include oidc
C5_ScopeCheck ==
    InAuth /\ NonceOk =>
        (call.out.resp = ViaRedirect("InvalidScope", "")
            <=> \/ ~AuthQ.v.scope.some
                \/ ~parse_scope(AuthQ.v.scope.v).ok
                \/ ~ContainsOidc(AuthQ.v.scope.v))

\* a parseable scope that holds oidc and a token that sorts after it has
\* been answered with InvalidScope
C5_OidcRefused ==
    /\ InAuth /\ NonceOk
    /\ AuthQ.v.scope.some
    /\ parse_scope(AuthQ.v.scope.v).ok
    /\ ContainsOidc(AuthQ.v.scope.v)
    /\ call.out.resp = ViaRedirect("InvalidScope", "")

\* C7: once the direct checks pass, the answer is the via-redirect error of
\* the first failing check in the order response_type, state, the seven
\* unsupported parameters in their order, nonce, scope, is_valid_client; and
\* is_valid_client is called only when all the earlier checks passed
C7_RedirectErrorOrder ==
    InAuth /\ ModeOk =>
        /\ ~TypeOk => call.out.resp = ViaRedirect("UnsupportedResponseType", "")
        /\ TypeOk /\ ~StateOk => call.out.resp = ViaRedirect("InvalidState", "")
        /\ \A i \in 1..Len(UnsupportedParams) :
              /\ StateOk
              /\ AuthQ.v[UnsupportedParams[i]].some
              /\ \A j \in 1..(i - 1) : ~AuthQ.v[UnsupportedParams[j]].some
              => call.out.resp = ViaRedirect("UnsupportedParameter", UnsupportedParams[i])
        /\ ParamsOk /\ ~NonceOk => call.out.resp = ViaRedirect("InvalidNonce", "")
        /\ NonceOk /\ ~ScopeOk => call.out.resp = ViaRedirect("InvalidScope", "")
        /\ ScopeOk /\ ~ClientOk => call.out.resp = ViaRedirect("UnauthorizedClient", "")
        /\ ClientOk => call.out.resp.variant # "Auth.FormPost"
        /\ (\E i \in 1..Len(call.out.handler_calls) :
                call.out.handler_calls[i].fn = "is_valid_client") <=> ScopeOk

\* a request with two unsupported parameters has been answered with the
\* one that is checked first, and the Handler has not been asked
C7_Witness ==
    /\ InAuth /\ StateOk
    /\ \E i, j \in 1..Len(UnsupportedParams) :
         /\ i < j
         /\ AuthQ.v[UnsupportedParams[i]].some /\ AuthQ.v[UnsupportedParams[j]].some
         /\ call.out.resp = ViaRedirect("UnsupportedParameter", UnsupportedParams[i])
    /\ call.out.handler_calls = <<>>


\* how far the token request in flight gets through the checks of
\* handle_token
BodyOk == call.req.method = "Post" /\ call.req.content_type = "UrlEncoded" /\ TokenBody.ok
GrantTypeOk == BodyOk /\ TokenBody.v.grant_type.v = AUTHORIZATION_CODE
HeaderOk == GrantTypeOk /\ call.req.authorization.some
BasicOk == HeaderOk /\ TokenCreds.ok
CredsOk == BasicOk /\ CredentialsValid
CodeOk ==
    /\ CredsOk
    /\ unseal(TokenBody.v.code.v, oidc.auth_code_secret, TokenBody.v.client_id.v, 1).ok
TokenMacOk ==
    /\ CodeOk
    /\ is_printable_ascii(TokenBody.v.client_id.v)
    /\ MacAuthenticates(TokenBody.v.client_id.v, TokenBody.v.redirect_uri.v)

\* C8: the answer of handle_token is the direct error of the first failing
\* check in the order method, content type, body, grant_type, Authorization
\* present, Basic parse, credentials, code, client_id and its MAC; valid
\* credentials with an invalid code and a wrong redirect_uri give
\* InvalidAuthCode
C8_TokenErrorOrder ==
    InToken =>
        /\ call.req.method # "Post" => call.out.resp = TokenError("UnsupportedMethod")
        /\ call.req.method = "Post" /\ call.req.content_type # "UrlEncoded"
             => call.out.resp = TokenError("UnsupportedContentType")
        /\ call.req.method = "Post" /\ call.req.content_type = "UrlEncoded" /\ ~BodyOk
             => call.out.resp = TokenError("MalformedRequestBody")
        /\ BodyOk /\ ~GrantTypeOk => call.out.resp = TokenError("UnsupportedGrantType")
        /\ GrantTypeOk /\ ~HeaderOk => call.out.resp = TokenError("MissingClientCredentials")
        /\ HeaderOk /\ ~BasicOk => call.out.resp = TokenError("MalformedClientCredentials")
        /\ BasicOk /\ ~CredsOk => call.out.resp = TokenError("InvalidClientCredentials")
        /\ CredsOk /\ ~CodeOk => call.out.resp = TokenError("InvalidAuthCode")
        /\ CodeOk /\ ~TokenMacOk => call.out.resp = TokenError("InvalidClientMAC")
        /\ TokenMacOk => call.out.resp.variant = "Token.IdToken"

\* a request with valid credentials, an invalid code and a wrong
\* redirect_uri has been answered with InvalidAuthCode
C8_Witness ==
    /\ InToken /\ CredsOk /\ ~CodeOk
    /\ ~MacAuthenticates(TokenBody.v.client_id.v, TokenBody.v.redirect_uri.v)
    /\ call.out.resp = TokenError("InvalidAuthCode")

\* a handle, unsealed under the auth-request-handle key with empty AAD: the
\* five strings of AuthRequestData
Unsealed(h) == unseal(h, oidc.auth_request_handle_secret, <<>>, 5)

\* C9: when every check of handle_auth passes, Handler::handle_auth is called
\* exactly once, with the request and a handle that unseals under the
\* auth-request-handle key and empty AAD to the request's state, nonce,
\* redirect_uri, scope and client_id, and its response is what handle_auth
\* returns; when a check fails Handler::handle_auth is not called
C9_HandlerCalledOnce ==
    InAuth =>
        /\ ClientOk =>
            /\ Len(HandleAuthCalls(call.out)) = 1
            /\ LET hc == HandleAuthCalls(call.out)[1]
               IN  /\ hc.req = call.req
                   /\ Unsealed(hc.auth_request_handle).ok
                   /\ Unsealed(hc.auth_request_handle).v
                        = <<AuthQ.v.state.v, AuthQ.v.nonce.v, AuthQ.v.redirect_uri.v,
                            AuthQ.v.scope.v, AuthQ.v.client_id.v>>
                   /\ call.out.resp
                        = Handler_handle_auth(oidc.handler, hc.req, hc.auth_request_handle)
        /\ ~ClientOk => HandleAuthCalls(call.out) = <<>>

\* a request with a scope of two tokens has passed every check and the
\* Handler has been called with its handle
C9_Witness ==
    /\ InAuth /\ ClientOk
    /\ AuthQ.v.scope.v # OIDC
    /\ Len(HandleAuthCalls(call.out)) = 1
    /\ call.out.resp.variant = "HandleAuthPage"

\* C10: grant_code on a valid handle with a creator that returns t returns
\* Ok(Grant) to the handle's redirect_uri, with CodeGrant data whose state is
\* the handle's and whose code unseals under the auth-code key with the
\* handle's client_id as AAD to the id_token t
C10_GrantCode ==
    InGrant /\ Unsealed(call.auth_request_handle).ok /\ call.creator.ok
    => LET d == Unsealed(call.auth_request_handle).v
           res == call.out.result
       IN  /\ res.ok
           /\ res.v.variant = "Grant"
           /\ res.v.uri = d[3]
           /\ res.v.data.variant = "CodeGrant"
           /\ res.v.data.state = d[1]
           /\ unseal(res.v.data.code, oidc.auth_code_secret, d[5], 1).ok
           /\ unseal(res.v.data.code, oidc.auth_code_secret, d[5], 1).v = <<call.creator.v>>

\* grant_code has answered a valid handle and a creator that returned t
C10_Witness ==
    /\ InGrant
    /\ Unsealed(call.auth_request_handle).ok
    /\ call.creator = Ok(ID_TOKEN)
    /\ call.out.result.ok
    /\ call.out.result.v.data.variant = "CodeGrant"

-----------------------------------------------------------------------------
(* grant_code: its errors and what it hands to the id_token_creator.       *)

\* C11: grant_code with a handle that does not unseal returns
\* Err(InvalidAuthRequestHandle) to the caller, so no response for the
\* user-agent, and the id_token_creator is not called
C11_InvalidHandle ==
    InGrant /\ ~Unsealed(call.auth_request_handle).ok
    => /\ ~call.out.result.ok
       /\ call.out.result.v = "InvalidAuthRequestHandle"
       /\ call.out.creator_calls = <<>>

\* grant_code has been given a handle cut short, with a creator that would fail
C11_Witness ==
    /\ InGrant
    /\ call.auth_request_handle = CutShort(handle.v)
    /\ ~call.creator.ok
    /\ ~call.out.result.ok

\* C12: grant_code with a valid handle and a creator that fails returns
\* Err(IdTokenCreation) to the caller (no code, no response for the
\* user-agent), and the creator has been called exactly once
C12_CreatorFails ==
    InGrant /\ Unsealed(call.auth_request_handle).ok /\ ~call.creator.ok
    => /\ ~call.out.result.ok
       /\ call.out.result.v = "IdTokenCreation"
       /\ Len(call.out.creator_calls) = 1

\* the creator has failed on the handle the Handler holds
C12_Witness ==
    /\ InGrant
    /\ call.auth_request_handle = handle.v
    /\ ~call.creator.ok
    /\ Len(call.out.creator_calls) = 1

\* C13: the TokenCreationData the creator is called with holds the nonce, the
\* client_id string and the scope string of the handle; and the handle that
\* handle_auth passes on holds the nonce, client_id and scope of the
\* authorization request, the scope as submitted
C13_TokenCreationData ==
    /\ InGrant /\ Unsealed(call.auth_request_handle).ok
       => LET d == Unsealed(call.auth_request_handle).v
          IN  call.out.creator_calls
                = <<[nonce |-> d[2], client_id |-> d[5], scope |-> d[4]]>>
    /\ InAuth /\ call.out.resp.variant = "HandleAuthPage"
       => LET d == Unsealed(call.out.resp.handle)
          IN  /\ d.ok
              /\ d.v[2] = AuthQ.v.nonce.v
              /\ d.v[5] = AuthQ.v.client_id.v
              /\ d.v[4] = AuthQ.v.scope.v

\* the creator has been called for a handle whose request had the scope
\* "oidc a", which is not in sorted order
C13_Witness ==
    /\ InGrant
    /\ call.auth_request_handle = handle.v
    /\ Len(call.out.creator_calls) = 1
    /\ call.out.creator_calls[1].scope = Words(<<OIDC, A>>)
    /\ call.out.creator_calls[1].nonce = GOOD_NONCE

-----------------------------------------------------------------------------
(* No server-side record: repeated and concurrent calls.                   *)

Done(t) == threads[t].op = "done"

\* the answers a and b to two calls of the operation op are the same
SameAnswer(op, a, b) ==
    IF op = "grant_code"
    THEN /\ a.result.ok = b.result.ok
         /\ a.result.v = b.result.v
         /\ a.creator_calls = b.creator_calls
    ELSE a = b

Granted(out) == out.result.ok /\ out.result.v.data.variant = "CodeGrant"

\* C14: single use is not enforced: when a token request has been answered
\* IdToken(t), the identical request is answered IdToken(t) again, and when
\* grant_code has succeeded on a handle it succeeds on that handle again,
\* whatever calls were made in between or at the same time
C14_NoSingleUse ==
    \A t, u \in Threads :
        Done(t) /\ Done(u) /\ t # u =>
            /\ threads[t].call.op = "handle_token"
               /\ threads[t].out.resp.variant = "Token.IdToken"
               /\ threads[u].call = threads[t].call
               => threads[u].out.resp = threads[t].out.resp
            /\ threads[t].call.op = "grant_code"
               /\ Granted(threads[t].out)
               /\ threads[u].call.op = "grant_code"
               /\ threads[u].call.auth_request_handle = threads[t].call.auth_request_handle
               /\ threads[u].call.creator.ok
               => Granted(threads[u].out)

\* the same token request has been answered IdToken twice
C14_Witness ==
    /\ Done(1) /\ Done(2)
    /\ threads[1].call.op = "handle_token"
    /\ threads[2].call = threads[1].call
    /\ threads[1].out.resp = IdToken(ID_TOKEN)
    /\ threads[2].out.resp = IdToken(ID_TOKEN)

\* the call c with the value r of the random source
WithNonce(c, r) == IF c.op \in {"handle_auth", "grant_code"} THEN [c EXCEPT !.r = r] ELSE c

\* the answer to c of an engine that has answered no other call
Alone(c) == Answer(new("MockHandler", MASTER_SECRET), build, c, FALSE)

AnsweredAsAlone ==
    \A t \in Threads :
        Done(t) => \E r \in 1..NumNonces :
                      SameAnswer(threads[t].call.op, threads[t].out,
                                 Alone(WithNonce(threads[t].call, r)))

-----------------------------------------------------------------------------
(* A change of the master secret.                                          *)

\* C16: an engine built from another master secret rejects what was issued
\* under MASTER_SECRET: the client_id fails the MAC check of handle_auth
\* (InvalidClientMAC), the password is refused by handle_token
\* (InvalidClientCredentials), the code is refused even with the password
\* the new engine has for the client_id (InvalidAuthCode), and the handle is
\* refused by grant_code (InvalidAuthRequestHandle)
C16_RekeyedRejects ==
    \A t \in Threads :
        Done(t) =>
            LET c == threads[t].call
                out == threads[t].out
            IN  /\ c.op = "handle_auth" => out.resp = AuthError("InvalidClientMAC")
                /\ c.op = "handle_token"
                   /\ (\E cl \in clients : c.req = TokenRequest(cl, code.v))
                   => out.resp = TokenError("InvalidClientCredentials")
                /\ c.op = "handle_token"
                   /\ (\E cl \in clients : c.req = TokenRequest(Reissued(oidc, cl), code.v))
                   => out.resp = TokenError("InvalidAuthCode")
                /\ c.op = "grant_code" /\ c.auth_request_handle = handle.v
                   => /\ ~out.result.ok
                      /\ out.result.v = "InvalidAuthRequestHandle"

\* the engine of the other secret has refused the handle in grant_code and
\* the code in handle_token
C16_Witness ==
    /\ Done(1) /\ Done(2)
    /\ threads[1].call.op = "grant_code"
    /\ threads[1].call.auth_request_handle = handle.v
    /\ ~threads[1].out.result.ok
    /\ threads[2].call.op = "handle_token"
    /\ threads[2].out.resp = TokenError("InvalidAuthCode")

-----------------------------------------------------------------------------
(* The envelope, the MAC of a ClientId, the password, and parse_scope.     *)

\* C17: an envelope unsealed under the key and AAD it was sealed with gives
\* back the payload; under another key or another AAD unseal fails
C17_EnvelopeRoundTrip ==
    call.op = "unseal" =>
        IF call.key = call.sealed.key /\ call.aad = call.sealed.aad
        THEN call.out.ok /\ call.out.v = call.sealed.fields
        ELSE ~call.out.ok

\* the AuthRequestData has come back from its envelope
C17_Witness ==
    /\ call.op = "unseal"
    /\ Len(call.sealed.fields) = 5
    /\ call.out.ok
    /\ call.out.v = call.sealed.fields

\* an envelope has been refused under its key with another AAD
C17_RefusedWitness ==
    /\ call.op = "unseal"
    /\ call.key = call.sealed.key
    /\ call.aad # call.sealed.aad
    /\ ~call.out.ok

\* C18: check_mac is true exactly when the mac part is the base64url text
\* of the whole HMAC of bare_id, a NUL byte and the redirect_uri under the
\* secret: true for the ClientId that ClientId::new makes, false after a
\* change of secret, bare_id or redirect_uri, for a strict prefix of the
\* mac text, and for a mac that is not base64url
C18_CheckMac ==
    call.op = "check_mac" =>
        /\ call.out
             <=> mac(call.client_id)
                   = B64Encode(HmacSha256(call.secret,
                                          bare_id(call.client_id) \o <<Ch(0)>>
                                            \o call.redirect_uri), TRUE)
        /\ call.out
             <=> /\ call.how = "none"
                 /\ call.made = <<bare_id(call.client_id), call.secret, call.redirect_uri>>

\* the prefix of a valid mac has been refused
C18_Witness ==
    /\ call.op = "check_mac"
    /\ call.how = "prefix"
    /\ mac(call.client_id) # <<>>
    /\ call.made = <<bare_id(call.client_id), call.secret, call.redirect_uri>>
    /\ ~call.out

\* C19: check_password accepts the password made for the client_id under
\* the secret, and refuses it for another client_id or another secret, and
\* refuses a password that is not base64url
C19_PasswordRoundTrip ==
    call.op = "check_password" =>
        (call.out <=> call.how = "none" /\ call.made = <<call.client_id, call.secret>>)

\* the password of a client_id has been accepted for it
C19_Witness ==
    /\ call.op = "check_password"
    /\ call.how = "none"
    /\ call.client_id # <<>>
    /\ call.made = <<call.client_id, call.secret>>
    /\ call.out

\* a character of a scope token: 0x21, 0x23..0x5B, 0x5D..0x7E
ScopeTokenCode(n) == n = 33 \/ (n >= 35 /\ n <= 91) \/ (n >= 93 /\ n <= 126)

\* the text is one or more non-empty tokens of such characters, divided by
\* single spaces
WellFormedScope(text) ==
    /\ text # <<>>
    /\ text[1].n # 32 /\ text[Len(text)].n # 32
    /\ \A i \in 1..(Len(text) - 1) : ~(text[i].n = 32 /\ text[i + 1].n = 32)
    /\ \A i \in 1..Len(text) : text[i].n = 32 \/ ScopeTokenCode(text[i].n)

Occurrences(list, x) == Cardinality({i \in 1..Len(list) : list[i] = x})

\* C20: parse_scope succeeds exactly on the texts made of non-empty tokens
\* of the allowed characters divided by single spaces, and then returns the
\* tokens in ascending order, each as often as it occurs
C20_ParseScope ==
    call.op = "parse_scope" =>
        /\ call.out.ok <=> WellFormedScope(call.scope)
        /\ ~call.out.ok => call.out.v = "InvalidScope"
        /\ call.out.ok =>
              LET tokens == Split(call.scope, Ch(32))
              IN  /\ Len(call.out.v) = Len(tokens)
                  /\ \A i \in 1..Len(tokens) :
                        Occurrences(call.out.v, tokens[i]) = Occurrences(tokens, tokens[i])
                  /\ \A i \in 1..(Len(tokens) - 1) :
                        StrCmp(call.out.v[i], call.out.v[i + 1]) # "Greater"

\* "b a a" has been parsed to a, a, b
C20_Witness ==
    /\ call.op = "parse_scope"
    /\ call.scope = Words(<<B, A, A>>)
    /\ call.out.ok
    /\ call.out.v = <<A, A, B>>

\* C21: when parse_scope succeeds on a text, it succeeds on its tokens
\* joined by single spaces and returns the same token list
C21_ParseScopeIdempotent ==
    call.op = "parse_scope_again" =>
        /\ call.first.out.ok
        /\ call.scope = Words(call.first.out.v)
        /\ call.out.ok
        /\ call.out.v = call.first.out.v

\* "b a a" was parsed to a, a, b, and "a a b" has been parsed to a, a, b
C21_Witness ==
    /\ call.op = "parse_scope_again"
    /\ call.first.scope = Words(<<B, A, A>>)
    /\ call.scope = Words(<<A, A, B>>)
    /\ call.out.ok
    /\ call.out.v = <<A, A, B>>

\* the number written by decimal digits
RECURSIVE Decimal(_)
Decimal(ds) ==
    IF ds = <<>> THEN 0 ELSE Decimal(Take(ds, Len(ds) - 1)) * 10 + (ds[Len(ds)].n - 48)

HexDigit(n) ==
    IF n >= 48 /\ n <= 57 THEN n - 48
    ELSE IF n >= 65 /\ n <= 70 THEN n - 55
    ELSE n - 87

RECURSIVE Hexadecimal(_)
Hexadecimal(ds) ==
    IF ds = <<>> THEN 0
    ELSE Hexadecimal(Take(ds, Len(ds) - 1)) * 16 + HexDigit(ds[Len(ds)].n)

\* the code of the character an HTML character reference stands for: the
\* named references of the five characters, &#<decimal>; and &#x<hex>;
\* (-1 when the text is no such reference)
CharRefValue(ref) ==
    LET n == Len(ref)
        body == SubSeq(ref, 3, n - 1)
        hex == SubSeq(ref, 4, n - 1)
    IN  IF ~IsPlain(ref) \/ n < 3 THEN -1
        ELSE IF ref[1].n # 38 \/ ref[n].n # 59 THEN -1
        ELSE IF ref = <<Ch(38), Ch(108), Ch(116), Ch(59)>> THEN 60
        ELSE IF ref = <<Ch(38), Ch(103), Ch(116), Ch(59)>> THEN 62
        ELSE IF ref = <<Ch(38), Ch(97), Ch(109), Ch(112), Ch(59)>> THEN 38
        ELSE IF ref = <<Ch(38), Ch(113), Ch(117), Ch(111), Ch(116), Ch(59)>> THEN 34
        ELSE IF ref = <<Ch(38), Ch(97), Ch(112), Ch(111), Ch(115), Ch(59)>> THEN 39
        ELSE IF ref[2].n # 35 \/ n < 4 THEN -1
        ELSE IF ref[3].n \in {88, 120}
             THEN IF hex # <<>> /\ \A i \in 1..Len(hex) :
                        \/ hex[i].n >= 48 /\ hex[i].n <= 57
                        \/ hex[i].n >= 65 /\ hex[i].n <= 70
                        \/ hex[i].n >= 97 /\ hex[i].n <= 102
                  THEN Hexadecimal(hex) ELSE -1
        ELSE IF \A i \in 1..Len(body) : body[i].n >= 48 /\ body[i].n <= 57
             THEN Decimal(body) ELSE -1

\* out is s with every escaped character replaced by a reference to that
\* character, and every other character kept, in order
RECURSIVE EscapedAs(_, _)
EscapedAs(s, out) ==
    IF s = <<>> THEN out = <<>>
    ELSE IF IsEscaped(Head(s))
         THEN \E k \in 1..Len(out) :
                  /\ CharRefValue(Take(out, k)) = Head(s).n
                  /\ EscapedAs(Tail(s), Drop(out, k))
    ELSE /\ out # <<>>
         /\ Head(out) = Head(s)
         /\ EscapedAs(Tail(s), Tail(out))

\* C22: html::escape returns a text without '<', '>', '&', '"' and '\''
\* as it is, and otherwise replaces each of these characters by its own
\* character reference and keeps the other characters, in order
C22_Escape ==
    call.op = "escape" =>
        /\ (\A i \in 1..Len(call.s) : ~IsEscaped(call.s[i])) => call.out = call.s
        /\ EscapedAs(call.s, call.out)

\* the apostrophe has been escaped as &#27;, the reference to U+001B
C22_ApostropheAsEscape ==
    /\ call.op = "escape"
    /\ call.s = <<Ch(39)>>
    /\ call.out = <<Ch(38), Ch(35), Ch(50), Ch(55), Ch(59)>>
    /\ CharRefValue(call.out) = 27

\* without the apostrophe the claim holds
C22_EscapeButApostrophe ==
    call.op = "escape" /\ (\A i \in 1..Len(call.s) : call.s[i].n # 39) =>
        /\ (\A i \in 1..Len(call.s) : ~IsEscaped(call.s[i])) => call.out = call.s
        /\ EscapedAs(call.s, call.out)

\* the values of the header of that name
HeaderValues(hs, name) == {hs[i].value : i \in {j \in 1..Len(hs) : hs[j].name = name}}

HeaderCount(hs, name) == Cardinality({i \in 1..Len(hs) : hs[i].name = name})

\* the media types of HTML, plain text and JSON, with or without charset
HtmlTypes == {"text/html", "text/html;charset=UTF-8"}
PlainTextTypes == {"text/plain", "text/plain;charset=UTF-8"}
JsonTypes == {"application/json", "application/json;charset=UTF-8"}

\* the policy whose only directive is frame-ancestors none
FrameAncestorsNone == {"frame-ancestors none", "frame-ancestors none;"}

DirectError(resp) == resp.variant \in {"Auth.Error", "Token.Error"}

\* Cache-Control, Content-Security-Policy and WWW-Authenticate are as C23
\* says, and there is one Content-Type
FixedHeaders ==
    /\ HeaderCount(call.headers, "Cache-Control") = 1
    /\ HeaderValues(call.headers, "Cache-Control") = {"no-store"}
    /\ HeaderCount(call.headers, "Content-Security-Policy") = 1
    /\ HeaderValues(call.headers, "Content-Security-Policy") \subseteq FrameAncestorsNone
    /\ HeaderCount(call.headers, "Content-Type") = 1
    /\ HeaderCount(call.headers, "WWW-Authenticate") <= 1
    /\ HeaderValues(call.headers, "WWW-Authenticate") \subseteq {"Basic"}
    /\ HeaderCount(call.headers, "WWW-Authenticate") = 1 <=> call.status = 401

\* C23: every response has Cache-Control: no-store and
\* Content-Security-Policy: frame-ancestors none, one Content-Type that is
\* HTML for a bounce and a grant, plain text for an error of the
\* authorization endpoint and JSON for a token response, and
\* WWW-Authenticate: Basic exactly when its status is 401
C23_Headers ==
    call.op = "respond" =>
        /\ FixedHeaders
        /\ call.resp.variant \in {"Auth.FormPost", "Grant"} =>
              HeaderValues(call.headers, "Content-Type") \subseteq HtmlTypes
        /\ call.resp.variant = "Auth.Error" =>
              HeaderValues(call.headers, "Content-Type") \subseteq PlainTextTypes
        /\ call.resp.variant \in {"Token.Error", "Token.IdToken"} =>
              HeaderValues(call.headers, "Content-Type") \subseteq JsonTypes

\* an error of the authorization endpoint has gone out as plain/text
C23_PlainSlashText ==
    /\ call.op = "respond"
    /\ call.resp = AuthError("MalformedQuery")
    /\ HeaderValues(call.headers, "Content-Type") = {"plain/text;charset=UTF-8"}

\* the claim holds for the other variants, and for the other headers of an
\* error of the authorization endpoint
C23_HeadersButAuthError ==
    call.op = "respond" =>
        /\ FixedHeaders
        /\ call.resp.variant \in {"Auth.FormPost", "Grant"} =>
              HeaderValues(call.headers, "Content-Type") \subseteq HtmlTypes
        /\ call.resp.variant \in {"Token.Error", "Token.IdToken"} =>
              HeaderValues(call.headers, "Content-Type") \subseteq JsonTypes

C30_ErrorCodes ==
    call.op = "respond" /\ DirectError(call.resp) =>
        /\ call.error \in {"invalid_request", "invalid_client", "invalid_grant",
                           "unsupported_grant_type"}
        /\ call.error = "invalid_grant" <=> call.resp.error = "InvalidAuthCode"
        /\ call.error = "invalid_client" <=>
              call.resp.error \in {"MissingClientCredentials", "MalformedClientCredentials",
                                   "InvalidClientCredentials"}
        /\ call.error = "unsupported_grant_type" <=> call.resp.error = "UnsupportedGrantType"
        /\ call.resp.error \in {"MalformedClientId", "InvalidClientMAC"} =>
              call.error = "invalid_request"

\* InvalidClientMAC has gone out as invalid_request
C30_Witness ==
    /\ call.op = "respond"
    /\ call.resp = TokenError("InvalidClientMAC")
    /\ call.error = "invalid_request"

\* C25: a text parses as a ClientId exactly when it holds a tilde and all
\* its characters are printable ASCII (0x20..0x7E), and is MalformedClientId
\* otherwise; bare_id is what precedes the last tilde and mac what follows
\* it, and both may be empty
C25_ClientIdParse ==
    call.op = "client_id" =>
        /\ call.out.ok <=>
              /\ \E i \in 1..Len(call.s) : call.s[i].n = 126
              /\ \A i \in 1..Len(call.s) : call.s[i].n >= 32 /\ call.s[i].n <= 126
        /\ ~call.out.ok => call.out.v = "MalformedClientId"
        /\ call.out.ok =>
              /\ call.s = call.bare_id \o <<Ch(126)>> \o call.mac
              /\ \A i \in 1..Len(call.mac) : call.mac[i].n # 126

\* "~~" has been parsed to the bare_id "~" and the empty mac
C25_Witness ==
    /\ call.op = "client_id"
    /\ call.s = <<Ch(126), Ch(126)>>
    /\ call.out.ok
    /\ call.bare_id = <<Ch(126)>>
    /\ call.mac = <<>>

\* C26: parsing the header value written for Credentials gives the same
\* Credentials
C26_BasicRoundTrip ==
    call.op = "basic_auth" => call.out.ok /\ call.out.v = call.creds

\* the Credentials ("a:", "a") have been read back as ("a", ":a")
C26_ColonUserid ==
    /\ call.op = "basic_auth"
    /\ call.creds = [userid |-> <<Ch(97), Ch(58)>>, password |-> <<Ch(97)>>]
    /\ call.out.ok
    /\ call.out.v = [userid |-> <<Ch(97)>>, password |-> <<Ch(58), Ch(97)>>]

\* Credentials whose userid holds no colon are read back as they are
C26_RoundTripWithoutColon ==
    call.op = "basic_auth" /\ (\A i \in 1..Len(call.creds.userid) : call.creds.userid[i].n # 58) =>
        call.out.ok /\ call.out.v = call.creds

HasColon(text) == \E i \in 1..Len(text) : text[i].n = 58

\* C27: a header value parses exactly when, leading whitespace removed, it
\* starts with Basic and at least one whitespace character, and the rest,
\* trimmed, is the standard base64 of UTF-8 text with a colon; userid is the
\* text before the first colon and password all that follows it; every
\* failure is one of the five errors and handle_token answers it with
\* MalformedClientCredentials
C27_BasicParse ==
    call.op = "basic_parse" =>
        LET p == call.parts
        IN  /\ call.out.ok <=>
                  /\ p.scheme = <<Ch(66), Ch(97), Ch(115), Ch(105), Ch(99)>>
                  /\ p.sep # <<>> /\ p.sep[1].n \in {9, 32}
                  /\ p.payload.encoded /\ p.payload.utf8 /\ HasColon(p.payload.text)
            /\ call.out.ok =>
                  /\ p.payload.text = call.out.v.userid \o <<Ch(58)>> \o call.out.v.password
                  /\ ~HasColon(call.out.v.userid)
            /\ ~call.out.ok =>
                  /\ call.out.v \in {"MissingBasic", "MissingWhitespace", "InvalidBase64",
                                      "InvalidUtf8", "MissingColon"}
                  /\ call.reported = TokenError("MalformedClientCredentials")

\* the value tab, space, Basic, tab, space, base64 of "a:b:", space has been
\* parsed to userid a and password "b:"
C27_Witness ==
    /\ call.op = "basic_parse"
    /\ call.parts.lead = <<Ch(9), Ch(32)>>
    /\ call.parts.sep = <<Ch(9), Ch(32)>>
    /\ call.parts.trail = <<Ch(32)>>
    /\ call.out.ok
    /\ call.out.v = [userid |-> <<Ch(97)>>, password |-> <<Ch(98), Ch(58)>>]

\* each of the five failures has been answered MalformedClientCredentials
C27_FailureWitness ==
    /\ call.op = "basic_parse"
    /\ ~call.out.ok /\ call.out.v = "InvalidUtf8"
    /\ call.reported = TokenError("MalformedClientCredentials")

\* C28: handle_auth accepts the redirect_uri of a client, its MAC being
\* right, exactly when it is a URL of scheme https without fragment whose
\* query, if any, holds none of code, state, nonce, error, error_description
\* and error_uri, be it with an empty value; other fields are allowed; a
\* redirect_uri that is not accepted is answered with the direct error
\* MalformedRedirectUri
C28_RedirectUri ==
    call.op = "redirect_uri" =>
        LET p == call.parts
            acceptable ==
                /\ p.prefix = <<Ch(104), Ch(116), Ch(116), Ch(112), Ch(115), Ch(58),
                                Ch(47), Ch(47), Ch(104)>>
                /\ ~p.fragment.some
                /\ p.query.some =>
                      \A i \in 1..Len(p.query.v) : p.query.v[i].name \notin ReservedNames
        IN  IF acceptable THEN call.out.resp.variant # "Auth.Error"
            ELSE call.out.resp = AuthError("MalformedRedirectUri")

\* https://h?a=b&nonce= has been refused
C28_Witness ==
    /\ call.op = "redirect_uri"
    /\ call.uri = Str(<<"h", "t", "t", "p", "s", ":", "/", "/", "h", "?", "a", "=", "b", "&",
                        "n", "o", "n", "c", "e", "=">>)
    /\ call.out.resp = AuthError("MalformedRedirectUri")

\* https://h?a=b&a=b has been accepted
C28_AcceptedWitness ==
    /\ call.op = "redirect_uri"
    /\ call.uri = Str(<<"h", "t", "t", "p", "s", ":", "/", "/", "h", "?", "a", "=", "b", "&",
                        "a", "=", "b">>)
    /\ call.out.resp.variant # "Auth.Error"
    /\ call.out.handler_calls # <<>>

\* the state parameter of the request in flight, as it was sent
RequestState ==
    LET q == call.req.query
        at == {i \in 1..Len(q) : q[i][1] = "state"}
    IN  IF at = {} THEN None ELSE Some(q[CHOOSE i \in at : TRUE][2])

Bounced == InAuth /\ call.out.resp.variant = "Auth.FormPost"

\* C29: an error that handle_auth sends via the redirect carries the state
\* of the request as it was sent, also when it is empty or not printable,
\* and carries no state when the request had none
C29_StateEchoed ==
    Bounced =>
        /\ call.out.resp.data.variant = "Error"
        /\ call.out.resp.data.state = RequestState

\* an error other than InvalidState has been sent with a state that is not
\* printable
C29_Witness ==
    /\ Bounced
    /\ call.out.resp.data.error # "InvalidState"
    /\ call.out.resp.data.state = Some(<<Ch(0)>>)

\* an error has been sent without state, and one with the empty state
C29_NoStateWitness ==
    /\ Bounced
    /\ call.out.resp.data.state = None

C29_EmptyStateWitness ==
    /\ Bounced
    /\ call.out.resp.data.state = Some(<<>>)

\* C31: from_handle answers InvalidAuthRequestHandle and from_code answers
\* InvalidAuthCode whatever the cause: an envelope that is not base64url,
\* that decodes to fewer than 24 bytes, that does not authenticate (other
\* key, other associated data, other bytes) or whose payload is not the
\* struct; they succeed only on the undamaged envelope of the struct under
\* its key and associated data
C31_OneFailure ==
    call.op = "open" =>
        LET sealed == call.sealed
            intact == call.how = "none" /\ call.key = sealed.key
        IN  /\ call.as_handle.ok <=>
                  intact /\ sealed.aad = <<>> /\ Len(sealed.fields) = 5
            /\ ~call.as_handle.ok => call.as_handle.v = "InvalidAuthRequestHandle"
            /\ call.as_code.ok <=>
                  intact /\ sealed.aad = call.client_id /\ Len(sealed.fields) = 1
            /\ ~call.as_code.ok => call.as_code.v = "InvalidAuthCode"

\* an envelope of 40 bytes that were never sealed has been refused as a
\* handle and as a code
C31_Witness ==
    /\ call.op = "open"
    /\ call.how = "other_bytes"
    /\ call.as_handle = Err("InvalidAuthRequestHandle")
    /\ call.as_code = Err("InvalidAuthCode")

\* the undamaged envelope of a code, under its key and without associated
\* data, has been refused as a handle: the payload is not AuthRequestData
C31_PayloadWitness ==
    /\ call.op = "open"
    /\ call.how = "none" /\ call.key = call.sealed.key /\ call.sealed.aad = <<>>
    /\ Len(call.sealed.fields) = 1
    /\ call.as_handle = Err("InvalidAuthRequestHandle")

\* C32: when sealing fails, handle_auth answers a request that passes every
\* check with the form-POST error ServerError to the request's redirect_uri,
\* with the request's state, and does not call Handler::handle_auth;
\* grant_code on a valid handle with a creator that returns a token returns
\* Ok with the form-POST error ServerError to the handle's redirect_uri,
\* carrying the handle's state
C32_SealingFailure ==
    seal_fails =>
        /\ InAuth =>
              /\ HandleAuthCalls(call.out) = <<>>
              /\ ClientOk =>
                    call.out.resp = AuthFormPost(AuthQ.v.redirect_uri.v,
                                                 ErrorData("ServerError", "", AuthQ.v.state))
        /\ InGrant /\ Unsealed(call.auth_request_handle).ok /\ call.creator.ok =>
              LET d == Unsealed(call.auth_request_handle).v
              IN  /\ call.out.result.ok
                  /\ call.out.result.v = Grant(d[3], ErrorData("ServerError", "", Some(d[1])))

\* grant_code could not seal the token the creator returned for the handle
\* the Handler holds
C32_Witness ==
    /\ seal_fails /\ InGrant
    /\ call.auth_request_handle = handle.v
    /\ call.creator = Ok(ID_TOKEN)
    /\ call.out.result.ok
    /\ call.out.result.v = Grant(U_A, ErrorData("ServerError", "", Some(GOOD_STATE)))

\* handle_auth could not seal the handle of a request that passed every check
C32_AuthWitness ==
    /\ seal_fails /\ InAuth /\ ClientOk
    /\ call.out.resp.variant = "Auth.FormPost"
    /\ call.out.resp.data.error = "ServerError"
    /\ call.out.handler_calls # <<>>
    /\ HandleAuthCalls(call.out) = <<>>

\* the call in flight has produced an http::Response, and that response
Responded ==
    \/ InAuth /\ call.out.resp.variant \in {"Auth.Error", "Auth.FormPost"}
    \/ InGrant /\ call.out.result.ok
    \/ InToken

Response == IF InGrant THEN call.out.result.v ELSE call.out.resp

AuthRequests ==
    {ApplyDevs(AuthRequest(c), ds) :
        c \in clients, ds \in DevChoices(AuthDeviations, 1, Budget(clients))}

\* handle_auth has issued a handle for the authorization request req, and
\* grant_code has minted the code c from that handle
Minted(req, r, c) ==
    LET out == handle_auth(oidc, build, req, r, FALSE)
    IN  /\ out.resp.variant = "HandleAuthPage"
        /\ \E creator \in Creators : \E r2 \in 1..NumNonces :
              LET granted == grant_code(oidc, out.resp.handle, creator, r2, FALSE)
              IN  /\ Granted(granted)
                  /\ granted.result.v.data.code = c

\* the redirect_uri of the authorization request req
RequestRedirectUri(req) == AuthQuery_from_str(req.query).v.redirect_uri.v

\* C34: when handle_token returns an id_token for a code that grant_code
\* minted from a handle issued by handle_auth, the redirect_uri of the token
\* request is the redirect_uri of that authorization request
C34_RedirectUriBound ==
    InToken /\ call.out.resp.variant = "Token.IdToken" =>
        \A req \in AuthRequests : \A r \in 1..NumNonces :
            Minted(req, r, TokenBody.v.code.v)
                => TokenBody.v.redirect_uri.v = RequestRedirectUri(req)

\* the code granted on an issued handle has been redeemed, with the
\* redirect_uri of the authorization request
C34_Witness ==
    /\ InToken /\ call.out.resp = IdToken(ID_TOKEN)
    /\ TokenBody.v.code.v = code.v
    /\ \E req \in AuthRequests : \E r \in 1..NumNonces :
          /\ Minted(req, r, code.v)
          /\ TokenBody.v.redirect_uri.v = RequestRedirectUri(req)

\* the code has been presented with another redirect_uri and refused
C34_RefusedWitness ==
    /\ InToken /\ call.out.resp = TokenError("InvalidClientMAC")
    /\ TokenBody.v.code.v = code.v
    /\ \E req \in AuthRequests : \E r \in 1..NumNonces :
          /\ Minted(req, r, code.v)
          /\ TokenBody.v.redirect_uri.v # RequestRedirectUri(req)

\* C35: the sub-keys separate the purposes: the key of the codes is not the
\* key of the handles, an auth_request_handle issued by handle_auth is never
\* accepted as a code by handle_token, and an auth_code minted by grant_code
\* is never accepted as a handle by grant_code
C35_PurposeSeparation ==
    /\ oidc.auth_code_secret # oidc.auth_request_handle_secret
    /\ InToken /\ handle.some /\ TokenBody.ok /\ TokenBody.v.code.v = handle.v
          => call.out.resp.variant # "Token.IdToken"
    /\ InGrant /\ code.some /\ call.auth_request_handle = code.v
          => /\ ~call.out.result.ok
             /\ call.out.result.v = "InvalidAuthRequestHandle"
             /\ call.out.creator_calls = <<>>

\* a client with valid credentials and its own redirect_uri has presented
\* the handle as its code, and has been answered InvalidAuthCode
C35_Witness ==
    /\ InToken /\ handle.some /\ TokenBody.ok /\ TokenBody.v.code.v = handle.v
    /\ BeforeCredentials /\ CredentialsValid
    /\ MacAuthenticates(TokenBody.v.client_id.v, TokenBody.v.redirect_uri.v)
    /\ TokenBody.v.client_id.v = from_handle(handle.v, oidc.auth_request_handle_secret).v.client_id
    /\ call.out.resp = TokenError("InvalidAuthCode")

\* grant_code has been called on the code, and has answered
\* InvalidAuthRequestHandle
C35_CodeWitness ==
    /\ InGrant /\ code.some /\ call.auth_request_handle = code.v
    /\ call.creator = Ok(ID_TOKEN)
    /\ ~call.out.result.ok

\* the tokens that the id_token_creators return
CreatedTokens == {ID_TOKEN, OTHER_TOKEN}

\* handle_auth has issued a handle for the authorization request req, the
\* handle carries client_id, and a grant_code call on it, whose creator was
\* called once and returned t, has sealed the code c
Sealed(req, r, c, t, client_id) ==
    LET out == handle_auth(oidc, build, req, r, FALSE)
    IN  /\ out.resp.variant = "HandleAuthPage"
        /\ from_handle(out.resp.handle, oidc.auth_request_handle_secret).v.client_id
              = client_id
        /\ \E r2 \in 1..NumNonces :
              LET granted == grant_code(oidc, out.resp.handle, Ok(t), r2, FALSE)
              IN  /\ Granted(granted)
                  /\ Len(granted.creator_calls) = 1
                  /\ granted.result.v.data.code = c

\* C36: every id_token that handle_token returns is a value that an
\* id_token_creator returned in a grant_code call which sealed the presented
\* code, on a handle that carried the client_id of the token request
C36_Provenance ==
    InToken /\ call.out.resp.variant = "Token.IdToken" =>
        /\ call.out.resp.id_token \in CreatedTokens
        /\ \E req \in AuthRequests : \E r \in 1..NumNonces :
              Sealed(req, r, TokenBody.v.code.v, call.out.resp.id_token,
                     TokenBody.v.client_id.v)

\* the code sealed for the creator's other token has been redeemed for it
C36_Witness ==
    /\ InToken /\ call.out.resp = IdToken(OTHER_TOKEN)
    /\ TokenBody.v.code.v = code.v
    /\ \E req \in AuthRequests : \E r \in 1..NumNonces :
          Sealed(req, r, code.v, OTHER_TOKEN, TokenBody.v.client_id.v)

\* the engine that differs from o in its handler only
OtherHandler(o) ==
    [o EXCEPT !.handler = IF @ = "MockHandler" THEN "DefaultHandler" ELSE "MockHandler"]

\* the two handlers give different verdicts on the client
VerdictsDiffer(client_id, redirect_uri) ==
    Handler_is_valid_client(oidc.handler, client_id, redirect_uri)
        # Handler_is_valid_client(OtherHandler(oidc).handler, client_id, redirect_uri)

\* C37: the outcome of handle_token and of grant_code does not depend on
\* Handler::is_valid_client: an engine that differs only in its handler's
\* verdict gives the same answer to the token request, and the same result
\* with the same calls to the creator to the grant_code call
C37_HandlerIndependent ==
    /\ InToken =>
          LET other == handle_token(OtherHandler(oidc), call.req)
          IN  /\ other.resp.variant = call.out.resp.variant
              /\ other = call.out
    /\ InGrant =>
          \E r \in 1..NumNonces :
              SameAnswer("grant_code", call.out,
                         grant_code(OtherHandler(oidc), call.auth_request_handle,
                                    call.creator, r, seal_fails))

\* a client on which the verdicts differ has been granted a code, and both
\* engines redeem it
C37_Witness ==
    /\ InToken /\ call.out.resp = IdToken(ID_TOKEN)
    /\ \E c \in clients :
          /\ c.client_id.data = TokenBody.v.client_id.v
          /\ VerdictsDiffer(c.client_id, c.redirect_uri)
    /\ handle_token(OtherHandler(oidc), call.req).resp = IdToken(ID_TOKEN)

\* grant_code has granted a code to a client on which the verdicts differ
C37_GrantWitness ==
    /\ InGrant /\ Granted(call.out)
    /\ \E c \in clients :
          /\ c.client_id.data
                = from_handle(call.auth_request_handle, oidc.auth_request_handle_secret).v.client_id
          /\ VerdictsDiffer(c.client_id, c.redirect_uri)

\* C38: for a printable bare_id, with or without tildes, parsing the string
\* of ClientId::new succeeds and yields the constructed ClientId, with the
\* bare_id that was passed in and the base64url of the MAC, which holds no
\* tilde
C38_NewThenParse ==
    call.op = "client_id_new" /\ is_printable_ascii(call.bare_id) =>
        /\ call.parsed.ok
        /\ call.parsed.v = call.out
        /\ bare_id(call.parsed.v) = call.bare_id
        /\ mac(call.parsed.v) = mac(call.out)
        /\ mac(call.parsed.v)
              = B64Encode(HmacSha256(call.secret,
                                     call.bare_id \o <<Ch(0)>> \o call.redirect_uri), TRUE)
        /\ Find(mac(call.parsed.v), Ch(TILDE)) = 0

\* a ClientId with a tilde in its bare_id has been constructed and parsed
C38_Witness ==
    /\ call.op = "client_id_new"
    /\ call.bare_id = <<Ch(97), Ch(TILDE)>>
    /\ call.parsed.ok
    /\ bare_id(call.parsed.v) = call.bare_id

\* outside the claim: a bare_id with a control character makes a ClientId
\* whose string does not parse
C38_ControlWitness ==
    /\ call.op = "client_id_new"
    /\ ~is_printable_ascii(call.bare_id)
    /\ ~call.parsed.ok

\* the bytes that the MAC m was computed over
MacInput(m) == m[1].msg

\* C39: for printable bare_ids b1, b2 and any redirect_uris u1, u2, when the
\* bytes fed to the MAC are the same for (b1, u1) and (b2, u2), and so when
\* the MACs are the same, b1 = b2 and u1 = u2
C39_MacInputUnambiguous ==
    call.op = "compute_mac" /\ is_printable_ascii(call.b1) /\ is_printable_ascii(call.b2) =>
        /\ MacInput(call.mac1) = call.b1 \o <<Ch(0)>> \o call.u1
        /\ MacInput(call.mac2) = call.b2 \o <<Ch(0)>> \o call.u2
        /\ MacInput(call.mac1) = MacInput(call.mac2) \/ call.mac1 = call.mac2
              => call.b1 = call.b2 /\ call.u1 = call.u2

\* two printable bare_ids, redirect_uris with NUL bytes, the same MAC
C39_Witness ==
    /\ call.op = "compute_mac"
    /\ call.b1 = <<Ch(97)>> /\ call.b2 = <<Ch(97)>>
    /\ call.u1 = <<Ch(0), Ch(97)>>
    /\ call.mac1 = call.mac2

\* two printable bare_ids whose texts with their redirect_uris are the same
\* when run together, and whose MACs differ
C39_SeparatedWitness ==
    /\ call.op = "compute_mac"
    /\ call.b1 = <<Ch(97)>> /\ call.u1 = <<Ch(97)>>
    /\ call.b2 = <<Ch(97), Ch(97)>> /\ call.u2 = <<>>
    /\ call.mac1 # call.mac2

\* outside the claim: a bare_id with a NUL byte shares its MAC with another
\* pair
C39_NulWitness ==
    /\ call.op = "compute_mac"
    /\ ~is_printable_ascii(call.b1)
    /\ call.mac1 = call.mac2
    /\ call.b1 # call.b2

\* the five texts that replace a character: &lt; &gt; &amp; &quot; &#27;
Replacements ==
    {<<Ch(38), Ch(108), Ch(116), Ch(59)>>,
     <<Ch(38), Ch(103), Ch(116), Ch(59)>>,
     <<Ch(38), Ch(97), Ch(109), Ch(112), Ch(59)>>,
     <<Ch(38), Ch(113), Ch(117), Ch(111), Ch(116), Ch(59)>>,
     <<Ch(38), Ch(35), Ch(50), Ch(55), Ch(59)>>}

\* one of the replacements stands in t at position i
ReplacementAt(t, i) ==
    \E e \in Replacements :
        /\ i + Len(e) - 1 <= Len(t)
        /\ SubSeq(t, i, i + Len(e) - 1) = e

\* C40: the output of html::escape holds no '<', '>', '"' or '\'', and every
\* '&' in it starts one of the five replacements; so the line of a field and
\* the form tag of a bounce page hold the quotes and the angle brackets of
\* their format and no other: no name, value or redirect_uri ends its
\* attribute
C40_EscapeOutput ==
    /\ call.op = "escape" =>
          /\ \A i \in 1..Len(call.out) :
                /\ call.out[i] \notin {Ch(60), Ch(62), Ch(34), Ch(39)}
                /\ call.out[i] = Ch(38) => ReplacementAt(call.out, i)
    /\ call.op = "into_body" =>
          /\ Occurrences(call.input, Ch(34)) = 6
          /\ Occurrences(call.input, Ch(60)) = 1 /\ Occurrences(call.input, Ch(62)) = 1
          /\ Occurrences(call.input, Ch(39)) = 0
          /\ Occurrences(call.form, Ch(34)) = 4
          /\ Occurrences(call.form, Ch(60)) = 1 /\ Occurrences(call.form, Ch(62)) = 1
          /\ Occurrences(call.form, Ch(39)) = 0

\* a text of a quote, an ampersand and an angle bracket has been escaped
C40_Witness ==
    /\ call.op = "escape"
    /\ call.s = <<Ch(34), Ch(38), Ch(62)>>
    /\ Len(call.out) = 15

\* a field whose name, value and redirect_uri hold quotes has been written
C40_BodyWitness ==
    /\ call.op = "into_body"
    /\ call.name = <<Ch(34), Ch(62), Ch(39)>>
    /\ call.value = <<Ch(34), Ch(62)>>
    /\ call.redirect_uri = <<Ch(39), Ch(60)>>

=============================================================================
